---- MODULE Spec2Model ----
(***************************************************************************)
(* State-machine model of the chat backend of github-knowledge-vault:      *)
(*   backend/app/main.py  websocket_chat   (the session transport)         *)
(*   backend/app/llm.py   chat_stream      (the conversation loop)         *)
(*   backend/app/mcp.py   call_tool        (the tool invoker)              *)
(* and of its REST side:                                                   *)
(*   backend/app/main.py  the three repository endpoints                   *)
(*   mcp-bridge/cache.py  InMemoryCache                                    *)
(*   mcp-bridge/main.py   get_repositories, get_repo_docs                  *)
(*                                                                         *)
(* One asyncio task runs websocket_chat per connection.  Tasks interleave  *)
(* only at awaits, so one action is the code between two awaits of one     *)
(* task: receive_json, acompletion, the next chunk of the provider stream, *)
(* mcp_client.call_tool.  A yield of chat_stream hands the event to the    *)
(* `async for` body of websocket_chat (send_json, full_response +=), which *)
(* touches only that connection's socket and locals, so it is part of the  *)
(* action that produced the event.                                         *)
(*                                                                         *)
(* Text is a sequence of characters.  None is the one-element sequence     *)
(* NoneText, the empty string is << >>.                                    *)
(* settings.GITHUB_ORG and settings.API_BASE are read by llm.py but not    *)
(* declared in config.py; they are taken as configured values.             *)
(* build_system_prompt only decides the content of the system message; the *)
(* frame's context is not modelled and the system message is SystemMsg.    *)
(***************************************************************************)
EXTENDS Integers, Sequences, FiniteSets, TLC

\* ------------------------------------------------------------ bounds
\* The environment of a run: how many connections are accepted, how many
\* frames the clients send, how many chunks the provider delivers.
MaxConnects == 2
MaxFrames == 2
MaxChunks == 2

Conns == {1, 2}
ConvIds == {"A", "B"}

\* ------------------------------------------------------------ constants
max_iterations == 10

NoneText == <<"None">>
GITHUB_ORG == "org0"

\* ------------------------------------------------------------ text
RECURSIVE LStrip(_)
LStrip(s) ==
    IF s # <<>> /\ Head(s) = " " THEN LStrip(Tail(s)) ELSE s

RECURSIVE RStrip(_)
RStrip(s) ==
    IF s # <<>> /\ s[Len(s)] = " " THEN RStrip(SubSeq(s, 1, Len(s) - 1)) ELSE s

\* str.strip()
Strip(s) == RStrip(LStrip(s))

\* The content values a client puts in a 'message' frame.  NoneText is a
\* JSON null (data.get("content", "") then returns None).
RawContents == {<<" ">>, <<"q", " ">>, NoneText}

\* A wider choice of contents: the empty string (also what a frame without
\* a content member gives), blanks on both sides, blanks only.
RichRawContents == RawContents \cup {<<>>, <<" ", "q">>, <<" ", " ">>}

\* ------------------------------------------------------------ messages
SystemMsg == [role |-> "system", content |-> <<"system prompt">>]

UserMsg(content) == [role |-> "user", content |-> content]

AssistantMsg(content) == [role |-> "assistant", content |-> content]

\* llm.py 311-325: the assistant message that carries the tool calls.
ToolCallEntry(tc) ==
    [id |-> tc.id, type |-> "function",
     function |-> [name |-> tc.name, arguments |-> tc.arguments]]

AssistantToolCallMsg(text, pending) ==
    [role |-> "assistant",
     content |-> IF text # <<>> THEN text ELSE NoneText,
     tool_calls |-> [i \in 1..Len(pending) |-> ToolCallEntry(pending[i])]]

\* llm.py 307: json.dumps for a dict or a list, str() for anything else.
ToolContent(result) ==
    IF result.kind \in {"dict", "list"}
    THEN [enc |-> "json", of |-> result]
    ELSE [enc |-> "str", of |-> result]

\* llm.py 303-308
ToolMsg(tc, result) ==
    [role |-> "tool", tool_call_id |-> tc.id, name |-> tc.name,
     content |-> ToolContent(result)]

\* ------------------------------------------------------------ events
TextEvent(t) == [type |-> "text", content |-> t]

ToolUseStart(id, name) == [type |-> "tool_use_start", toolId |-> id, name |-> name]

ToolResultEvent(tc, result) ==
    [type |-> "tool_result", toolId |-> tc.id, name |-> tc.name, result |-> result]

DoneFrame == [type |-> "done"]

ErrorFrame(message) == [type |-> "error", message |-> message]

PongFrame == [type |-> "pong"]

\* One entry of a connection's transcript: a frame and its direction.
In(frame) == [dir |-> "in", frame |-> frame]

Out(frame) == [dir |-> "out", frame |-> frame]

OutAll(events) == [i \in 1..Len(events) |-> Out(events[i])]

\* main.py 231-232: full_response += event["content"] for each text event.
RECURSIVE TextOf(_)
TextOf(events) ==
    IF events = <<>> THEN <<>>
    ELSE (IF Head(events).type = "text" THEN Head(events).content ELSE <<>>)
         \o TextOf(Tail(events))

\* ------------------------------------------------------------ tool arguments
\* The argument text of a tool call is a sequence over { "{", "}", "q", "o",
\* "g", "1" }: "q" stands for the member "query": "x", "o" for "org": "other",
\* "g" for "org": "org0" (the configured organization), "1" for the JSON
\* number 1.
EmptyObject == [kind |-> "object", value |-> [k \in {} |-> ""]]

Member(ch) ==
    IF ch = "q" THEN [k \in {"query"} |-> "x"]
    ELSE IF ch = "o" THEN [k \in {"org"} |-> "other"]
    ELSE [k \in {"org"} |-> GITHUB_ORG]

\* json.loads: an object, a number, or JSONDecodeError (ok = FALSE).
json_loads(s) ==
    IF s = <<"{", "}">> THEN [ok |-> TRUE, kind |-> "object", value |-> EmptyObject.value]
    ELSE IF Len(s) = 3 /\ s[1] = "{" /\ s[2] \in {"q", "o", "g"} /\ s[3] = "}"
         THEN [ok |-> TRUE, kind |-> "object", value |-> Member(s[2])]
    ELSE IF s = <<"1">> THEN [ok |-> TRUE, kind |-> "number", value |-> <<>>]
    ELSE [ok |-> FALSE, kind |-> "none", value |-> <<>>]

\* Lines 268-272 without the except clause: the decoder's failure is not
\* replaced by an empty object and leaves the loop at 341-344.
ParseArgumentsStrict(arguments) ==
    IF arguments = <<>> THEN EmptyObject
    ELSE [kind |-> json_loads(arguments).kind, value |-> json_loads(arguments).value]

\* llm.py 268-272: tool_input
ParseArguments(arguments) ==
    IF arguments = <<>> THEN EmptyObject
    ELSE LET j == json_loads(arguments)
         IN IF j.ok THEN [kind |-> j.kind, value |-> j.value] ELSE EmptyObject

\* Lines 33-40 with an empty table: every name passes through.
tool_mapping_empty(name) == name

\* llm.py 33-40
tool_mapping(name) ==
    CASE name = "list_repositories" -> "get_org_repos_tool"
      [] name = "search_documentation" -> "search_documentation_tool"
      [] name = "get_documentation" -> "get_file_content_tool"
      [] name = "list_repo_docs" -> "get_repo_docs_tool"
      [] OTHER -> name

\* Line 43 as {**tool_input, "org": org}: the configured organization is
\* written last.
map_tool_call_org_last(tool_name, tool_input) ==
    IF tool_input.kind # "object"
    THEN [raises |-> TRUE, name |-> "", arguments |-> <<>>]
    ELSE [raises |-> FALSE,
          name |-> tool_mapping(tool_name),
          arguments |-> [k \in {"org"} \cup DOMAIN tool_input.value |->
                            IF k = "org" THEN GITHUB_ORG ELSE tool_input.value[k]]]

\* llm.py 16-47.  {"org": org, **tool_input} raises TypeError when
\* tool_input is not a mapping.
map_tool_call(tool_name, tool_input) ==
    IF tool_input.kind # "object"
    THEN [raises |-> TRUE, name |-> "", arguments |-> <<>>]
    ELSE [raises |-> FALSE,
          name |-> tool_mapping(tool_name),
          arguments |-> [k \in {"org"} \cup DOMAIN tool_input.value |->
                            IF k \in DOMAIN tool_input.value
                            THEN tool_input.value[k] ELSE GITHUB_ORG]]

\* ------------------------------------------------------------ tool backend
\* What mcp_client.call_tool does: it returns the decoded JSON of the
\* backend's answer (here a list), the raw text when that is no JSON, or
\* raises RuntimeError.
ToolOutcomes == {"list", "raise"}

RichToolOutcomes == ToolOutcomes \cup {"text"}

\* mcp.py 109: the message of the RuntimeError
ToolFailure(mcp_name) == <<"MCP tool failed", mcp_name>>

\* llm.py 282-289: result
ToolResult(outcome, mcp_name) ==
    CASE outcome = "list" -> [kind |-> "list", data |-> <<"repo1">>]
      [] outcome = "text" -> [kind |-> "str", data |-> <<"plain">>]
      [] outcome = "raise" -> [kind |-> "dict", data |-> <<"error">> \o ToolFailure(mcp_name)]

\* ------------------------------------------------------------ provider stream
\* A chunk of the litellm stream: choices[0].delta.content, the tool-call
\* deltas of choices[0].delta.tool_calls, choices[0].finish_reason ("None"
\* when absent).  skip: a chunk without choices or without a delta.
Chunk(content, tool_calls, finish_reason) ==
    [skip |-> FALSE, content |-> content, tool_calls |-> tool_calls,
     finish_reason |-> finish_reason]

SkipChunk ==
    [skip |-> TRUE, content |-> <<>>, tool_calls |-> <<>>, finish_reason |-> "None"]

Delta(id, name, arguments) == [id |-> id, name |-> name, arguments |-> arguments]

OpenT1 == Delta("t1", "list_repositories", <<>>)
OpenT2 == Delta("t2", "search_documentation", <<"{">>)
FragT1 == Delta("t1", "list_repositories", <<"{", "}">>)
FragT2 == Delta("t2", "search_documentation", <<"q", "}">>)
OrgT2 == Delta("t2", "search_documentation", <<"{", "o", "}">>)
NumT1 == Delta("t1", "list_repositories", <<"1">>)

\* What the provider may deliver as the next chunk of a stream.
Chunks ==
    { Chunk(<<"a">>, <<>>, "None"),
      Chunk(<<"b">>, <<>>, "stop"),
      Chunk(<<>>, <<OpenT1>>, "None"),
      Chunk(<<>>, <<OpenT2>>, "tool_calls") }

\* A wider choice of chunks: several deltas in a chunk, text beside a tool
\* call, arguments that override org, arguments that are no JSON object.
RichChunks ==
    Chunks \cup
    { SkipChunk,
      Chunk(<<>>, <<FragT1>>, "None"),
      Chunk(<<>>, <<FragT2>>, "tool_calls"),
      Chunk(<<>>, <<OrgT2>>, "None"),
      Chunk(<<>>, <<NumT1>>, "None"),
      Chunk(<<"a">>, <<OpenT1>>, "None"),
      Chunk(<<>>, <<OpenT1, OpenT2>>, "tool_calls"),
      Chunk(<<>>, <<>>, "length") }

\* llm.py 233-236: the index of the pending tool call with this id, 0 if none
Existing(pending, id) ==
    IF \E i \in 1..Len(pending) : pending[i].id = id
    THEN CHOOSE i \in 1..Len(pending) :
             /\ pending[i].id = id
             /\ \A j \in 1..(i - 1) : pending[j].id # id
    ELSE 0

\* Lines 229-256 where a continuation extends the call opened last, not
\* the call with its id.
ApplyDeltaLast(acc, d) ==
    LET i == Existing(acc.pending, d.id)
    IN IF i = 0
       THEN [pending |-> Append(acc.pending,
                                [id |-> d.id, name |-> d.name, arguments |-> d.arguments]),
             events |-> Append(acc.events, ToolUseStart(d.id, d.name))]
       ELSE [pending |-> [acc.pending EXCEPT ![Len(acc.pending)].arguments =
                                                 @ \o d.arguments],
             events |-> acc.events]

\* Lines 229-256 where a new tool call is put at the front of the batch.
ApplyDeltaFront(acc, d) ==
    LET i == Existing(acc.pending, d.id)
    IN IF i = 0
       THEN [pending |-> <<[id |-> d.id, name |-> d.name, arguments |-> d.arguments]>>
                             \o acc.pending,
             events |-> Append(acc.events, ToolUseStart(d.id, d.name))]
       ELSE [pending |-> [acc.pending EXCEPT ![i].arguments = @ \o d.arguments],
             events |-> acc.events]

\* llm.py 229-256: one tool-call delta.  acc = [pending, events].
ApplyDelta(acc, d) ==
    LET i == Existing(acc.pending, d.id)
    IN IF i = 0
       THEN [pending |-> Append(acc.pending,
                                [id |-> d.id, name |-> d.name, arguments |-> d.arguments]),
             events |-> Append(acc.events, ToolUseStart(d.id, d.name))]
       ELSE [pending |-> [acc.pending EXCEPT ![i].arguments = @ \o d.arguments],
             events |-> acc.events]

RECURSIVE ApplyDeltas(_, _)
ApplyDeltas(acc, deltas) ==
    IF deltas = <<>> THEN acc
    ELSE ApplyDeltas(ApplyDelta(acc, Head(deltas)), Tail(deltas))

\* Lines 223-225 without the yield: the text is only accumulated.
TextEventsHeld(chunk) == <<>>

\* llm.py 223-225: the text of a chunk
TextEvents(chunk) ==
    IF chunk.content # <<>> THEN <<TextEvent(chunk.content)>> ELSE <<>>

\* llm.py 212-260: the body of `async for chunk in response`, as the new
\* accumulated_text, pending_tool_calls, finish_reason and the events yielded.
ProcessChunk(s, chunk) ==
    IF chunk.skip
    THEN [accumulated_text |-> s.accumulated_text,
          pending_tool_calls |-> s.pending_tool_calls,
          finish_reason |-> s.finish_reason,
          events |-> <<>>]
    ELSE LET acc == ApplyDeltas([pending |-> s.pending_tool_calls,
                                 events |-> TextEvents(chunk)],
                                chunk.tool_calls)
         IN [accumulated_text |-> s.accumulated_text \o chunk.content,
             pending_tool_calls |-> acc.pending,
             finish_reason |-> IF chunk.finish_reason # "None"
                               THEN chunk.finish_reason ELSE s.finish_reason,
             events |-> acc.events]

\* ------------------------------------------------------------ state
VARIABLES
    conversations,      \* main.py 170: conversation id -> stored message list
    pc,                 \* where each connection's websocket_chat task waits
    conversation_id,    \* the path parameter of the connection
    client_open,        \* the client has not closed its end of the socket
    wire,               \* the frames received and sent on the connection, in order
    full_response,      \* main.py 225
    current_messages,   \* llm.py 183: the request history of the running turn
    iteration,          \* llm.py 185
    pending_tool_calls, \* llm.py 191
    accumulated_text,   \* llm.py 192
    finish_reason,      \* llm.py 209
    tool_results,       \* llm.py 264
    tool_index,         \* position of `for tool_call in pending_tool_calls`
    call,               \* the mcp_client.call_tool invocation in flight
    provided,           \* the text fragments the provider delivered in the turn
    before,             \* the stored history when the turn's frame arrived
    connects,           \* connections accepted so far
    frames,             \* frames sent by the clients so far
    chunks,             \* chunks delivered by the provider so far
    _client,            \* mcp.py 22: MCPClient._client, "None" or a Client
    _connected,         \* mcp.py 23: MCPClient._connected
    mcp_calls,          \* the calls of connect, disconnect and call_tool so far
    cache,              \* cache.py 38: InMemoryCache._cache, key -> entry
    now,                \* time.time() of the bridge process
    session,            \* mcp-bridge: mcp_client and mcp_client.session are set
    returned,           \* the last InMemoryCache call: method, key, value returned, time
    http_response,      \* the last response of a REST endpoint
    invoked             \* the tool-backend calls the REST endpoints made so far

\* The REST endpoints and the cache: no step of a chat connection reads or
\* writes them.
rest_vars ==
    <<_client, _connected, mcp_calls, cache, now, session, returned, http_response,
      invoked>>

\* mcp.py 53-55: the property is_connected
is_connected == _connected /\ _client # "None"

vars ==
    <<conversations, pc, conversation_id, client_open, wire, full_response,
      current_messages, iteration, pending_tool_calls, accumulated_text,
      finish_reason, tool_results, tool_index, call, provided, before,
      connects, frames, chunks,
      _client, _connected, mcp_calls, cache, now, session, returned, http_response,
      invoked>>

NoCall == [name |-> "", arguments |-> <<>>]

\* The locals of connection c's task and the message list it shares.
Local(c) ==
    [pc |-> pc[c],
     conversation_id |-> conversation_id[c],
     client_open |-> client_open[c],
     wire |-> wire[c],
     full_response |-> full_response[c],
     current_messages |-> current_messages[c],
     iteration |-> iteration[c],
     pending_tool_calls |-> pending_tool_calls[c],
     accumulated_text |-> accumulated_text[c],
     finish_reason |-> finish_reason[c],
     tool_results |-> tool_results[c],
     tool_index |-> tool_index[c],
     call |-> call[c],
     provided |-> provided[c],
     before |-> before[c],
     messages |-> conversations[conversation_id[c]]]

\* Line 196 with one list for all conversations.
CommitShared(c, n) ==
    /\ conversations' = [conversations EXCEPT !["A"] = n.messages]
    /\ pc' = [pc EXCEPT ![c] = n.pc]
    /\ conversation_id' = [conversation_id EXCEPT ![c] = n.conversation_id]
    /\ client_open' = [client_open EXCEPT ![c] = n.client_open]
    /\ wire' = [wire EXCEPT ![c] = n.wire]
    /\ full_response' = [full_response EXCEPT ![c] = n.full_response]
    /\ current_messages' = [current_messages EXCEPT ![c] = n.current_messages]
    /\ iteration' = [iteration EXCEPT ![c] = n.iteration]
    /\ pending_tool_calls' = [pending_tool_calls EXCEPT ![c] = n.pending_tool_calls]
    /\ accumulated_text' = [accumulated_text EXCEPT ![c] = n.accumulated_text]
    /\ finish_reason' = [finish_reason EXCEPT ![c] = n.finish_reason]
    /\ tool_results' = [tool_results EXCEPT ![c] = n.tool_results]
    /\ tool_index' = [tool_index EXCEPT ![c] = n.tool_index]
    /\ call' = [call EXCEPT ![c] = n.call]
    /\ provided' = [provided EXCEPT ![c] = n.provided]
    /\ before' = [before EXCEPT ![c] = n.before]
    /\ UNCHANGED rest_vars

\* main.py 196: `messages` is the stored list itself, so the task's writes
\* to it are writes to the store.
Commit(c, n) ==
    /\ conversations' = [conversations EXCEPT ![n.conversation_id] = n.messages]
    /\ pc' = [pc EXCEPT ![c] = n.pc]
    /\ conversation_id' = [conversation_id EXCEPT ![c] = n.conversation_id]
    /\ client_open' = [client_open EXCEPT ![c] = n.client_open]
    /\ wire' = [wire EXCEPT ![c] = n.wire]
    /\ full_response' = [full_response EXCEPT ![c] = n.full_response]
    /\ current_messages' = [current_messages EXCEPT ![c] = n.current_messages]
    /\ iteration' = [iteration EXCEPT ![c] = n.iteration]
    /\ pending_tool_calls' = [pending_tool_calls EXCEPT ![c] = n.pending_tool_calls]
    /\ accumulated_text' = [accumulated_text EXCEPT ![c] = n.accumulated_text]
    /\ finish_reason' = [finish_reason EXCEPT ![c] = n.finish_reason]
    /\ tool_results' = [tool_results EXCEPT ![c] = n.tool_results]
    /\ tool_index' = [tool_index EXCEPT ![c] = n.tool_index]
    /\ call' = [call EXCEPT ![c] = n.call]
    /\ provided' = [provided EXCEPT ![c] = n.provided]
    /\ before' = [before EXCEPT ![c] = n.before]
    /\ UNCHANGED rest_vars

\* ------------------------------------------------------------ websocket_chat
\* chat_stream is not running: its locals do not exist.
NoGenerator(s) ==
    [s EXCEPT !.full_response = <<>>, !.current_messages = <<>>, !.iteration = 0,
              !.pending_tool_calls = <<>>, !.accumulated_text = <<>>,
              !.finish_reason = "None", !.tool_results = <<>>, !.tool_index = 0,
              !.call = NoCall]

\* main.py 199-201: back at `await websocket.receive_json()`
AwaitFrame(s) == [NoGenerator(s) EXCEPT !.pc = "recv"]

\* main.py 250-261: the task ends and the socket is closed
Closed(s) == [NoGenerator(s) EXCEPT !.pc = "closed", !.client_open = FALSE]

\* Lines 228-232 where only the latest event of a step is sent.
RelayLatest(s, events) ==
    IF events = <<>> THEN s
    ELSE IF ~s.client_open THEN Closed(s)
    ELSE [s EXCEPT !.wire = Append(@, Out(events[Len(events)])),
                   !.full_response = @ \o TextOf(events)]

\* main.py 228-232: the `async for` body for the events of one step.
\* send_json raises once the client is gone: the handler at 244 runs, its
\* own send_json raises too, and the task ends at 250-261.
Relay(s, events) ==
    IF events = <<>> THEN s
    ELSE IF ~s.client_open THEN Closed(s)
    ELSE [s EXCEPT !.wire = @ \o OutAll(events),
                   !.full_response = @ \o TextOf(events)]

\* The handler without lines 245-248: the exception is swallowed.
ChatErrorSilent(s, e) ==
    IF s.client_open THEN AwaitFrame(s) ELSE Closed(s)

\* Lines 244-248 with the user message of the turn taken back.
ChatErrorRollback(s, e) ==
    IF s.client_open
    THEN AwaitFrame([s EXCEPT !.wire = Append(@, Out(ErrorFrame(<<"Chat error", e>>))),
                              !.messages = SubSeq(@, 1, Len(@) - 1)])
    ELSE Closed(s)

\* main.py 244-248: an exception out of chat_stream or of the loop body
ChatError(s, e) ==
    IF s.client_open
    THEN AwaitFrame([s EXCEPT !.wire = Append(@, Out(ErrorFrame(<<"Chat error", e>>)))])
    ELSE Closed(s)

\* Lines 235-236 without the test of line 235.
AppendAssistantAlways(messages, response) == Append(messages, AssistantMsg(response))

\* main.py 234-236
AppendAssistant(messages, response) ==
    IF response # <<>> THEN Append(messages, AssistantMsg(response)) ELSE messages

\* Lines 234-242 where a turn without text takes its user message back.
FinalizeDropsUnanswered(s) ==
    LET t == [s EXCEPT !.messages = IF s.full_response # <<>>
                                    THEN Append(@, AssistantMsg(s.full_response))
                                    ELSE SubSeq(@, 1, Len(@) - 1)]
    IN IF t.client_open
       THEN AwaitFrame([t EXCEPT !.wire = Append(@, Out(DoneFrame))])
       ELSE Closed(t)

\* main.py 234-242: chat_stream is exhausted
Finalize(s) ==
    LET t == [s EXCEPT !.messages = AppendAssistant(@, s.full_response)]
    IN IF t.client_open
       THEN AwaitFrame([t EXCEPT !.wire = Append(@, Out(DoneFrame))])
       ELSE Closed(t)

\* ------------------------------------------------------------ chat_stream
\* Line 187 with `<=` in place of `<`.
LoopGuardInclusive(n) == n <= max_iterations

\* llm.py 187-192: `while iteration < max_iterations`
LoopGuard(n) == n < max_iterations

\* Lines 187-192 without the reset of line 191.
LoopHeadKeepsPending(s) ==
    IF LoopGuard(s.iteration)
    THEN [s EXCEPT !.iteration = @ + 1, !.accumulated_text = <<>>, !.pc = "acompletion"]
    ELSE Finalize(s)

\* llm.py 187-192 and, after the loop, the end of the generator
LoopHead(s) ==
    IF LoopGuard(s.iteration)
    THEN [s EXCEPT !.iteration = @ + 1, !.pending_tool_calls = <<>>,
                   !.accumulated_text = <<>>, !.pc = "acompletion"]
    ELSE Finalize(s)

\* Lines 341-344 with `break` in place of `raise`.
RaiseSwallowed(s, e) == Finalize(s)

\* llm.py 341-344: any exception inside the loop is re-raised to the caller
Raise(s, e) == ChatError(s, e)

\* llm.py 266-286: parse and map the arguments of pending tool call
\* tool_index, then await mcp_client.call_tool
StartTool(s) ==
    LET tc == s.pending_tool_calls[s.tool_index]
        m == map_tool_call(tc.name, ParseArguments(tc.arguments))
    IN IF m.raises THEN Raise(s, "TypeError")
       ELSE [s EXCEPT !.call = [name |-> m.name, arguments |-> m.arguments],
                      !.pc = "tool"]

\* Lines 310-331 with the tool-call message and the tool results appended to
\* the stored list as well.
ContinueStored(s) ==
    LoopHead([s EXCEPT !.current_messages =
                 @ \o <<AssistantToolCallMsg(s.accumulated_text, s.pending_tool_calls)>>
                   \o s.tool_results,
                       !.messages =
                 @ \o <<AssistantToolCallMsg(s.accumulated_text, s.pending_tool_calls)>>
                   \o s.tool_results])

\* Lines 310-331 without the append of the assistant message (311-325).
ContinueResultsOnly(s) ==
    LoopHead([s EXCEPT !.current_messages = @ \o s.tool_results])

\* llm.py 310-331
Continue(s) ==
    LoopHead([s EXCEPT !.current_messages =
                 @ \o <<AssistantToolCallMsg(s.accumulated_text, s.pending_tool_calls)>>
                   \o s.tool_results])

\* ------------------------------------------------------------ history accessor
\* Lines 276-281 without the test of line 279, reading with a default.
get_conversation_messages_default(id) ==
    [status |-> 200, detail |-> "",
     body |-> IF id \in DOMAIN conversations THEN conversations[id] ELSE <<>>]

\* main.py 276-281: GET /api/conversations/{id}/messages
get_conversation_messages(id) ==
    IF id \notin DOMAIN conversations
    THEN [status |-> 404, detail |-> "Conversation not found", body |-> <<>>]
    ELSE [status |-> 200, detail |-> "", body |-> conversations[id]]

\* ------------------------------------------------------------ actions
\* Python values of the REST side: None, a list, a dict.
None == [py |-> "None", items |-> <<>>]

List(items) == [py |-> "list", items |-> items]

Dict(items) == [py |-> "dict", items |-> items]

\* The truth value Python gives to `if v:` and `if not v:`.
Truthy(v) == v.py # "None" /\ v.items # <<>>

\* No method of the cache was called yet.
NoReturn == [op |-> "", key |-> "", value |-> None, at |-> 0]

NoResponse == [endpoint |-> "", status |-> 0, detail |-> "", body |-> None,
               calls |-> <<>>]

\* No REST request was served yet and the cache is empty (cache.py 38).
RestIdle ==
    /\ cache = [k \in {} |-> None]
    /\ now = 0
    /\ returned = NoReturn
    /\ http_response = NoResponse
    /\ invoked = <<>>
    /\ mcp_calls = <<>>

\* The lifespan's mcp_client.connect() of both services succeeded (backend
\* main.py 32-34, mcp.py 26-41).
RestInit == _client = "Client" /\ _connected = TRUE /\ session = TRUE /\ RestIdle

\* No connection is open and nothing is stored (main.py 170).
ChatInit ==
    /\ conversations = [id \in {} |-> <<>>]
    /\ pc = [c \in Conns |-> "closed"]
    /\ conversation_id = [c \in Conns |-> ""]
    /\ client_open = [c \in Conns |-> FALSE]
    /\ wire = [c \in Conns |-> <<>>]
    /\ full_response = [c \in Conns |-> <<>>]
    /\ current_messages = [c \in Conns |-> <<>>]
    /\ iteration = [c \in Conns |-> 0]
    /\ pending_tool_calls = [c \in Conns |-> <<>>]
    /\ accumulated_text = [c \in Conns |-> <<>>]
    /\ finish_reason = [c \in Conns |-> "None"]
    /\ tool_results = [c \in Conns |-> <<>>]
    /\ tool_index = [c \in Conns |-> 0]
    /\ call = [c \in Conns |-> NoCall]
    /\ provided = [c \in Conns |-> <<>>]
    /\ before = [c \in Conns |-> <<>>]
    /\ connects = 0
    /\ frames = 0
    /\ chunks = 0

Init == ChatInit /\ RestInit

\* Connection slots and conversation identifiers are opaque names: they are
\* numbered in the order of their first use.
InOrder(c, id) ==
    /\ \A d \in Conns : d < c => (pc[d] # "closed" \/ wire[d] # <<>>)
    /\ id = "B" => "A" \in DOMAIN conversations

\* Lines 190-196 without the test of line 193: every connection starts
\* the conversation anew.
ConnectFresh(c, id) ==
    /\ pc[c] = "closed"
    /\ connects < MaxConnects
    /\ InOrder(c, id)
    /\ connects' = connects + 1
    /\ conversations' = (id :> <<>>) @@ conversations
    /\ pc' = [pc EXCEPT ![c] = "recv"]
    /\ conversation_id' = [conversation_id EXCEPT ![c] = id]
    /\ client_open' = [client_open EXCEPT ![c] = TRUE]
    /\ wire' = [wire EXCEPT ![c] = <<>>]
    /\ provided' = [provided EXCEPT ![c] = <<>>]
    /\ before' = [before EXCEPT ![c] = <<>>]
    /\ UNCHANGED <<full_response, current_messages, iteration, pending_tool_calls,
                   accumulated_text, finish_reason, tool_results, tool_index, call,
                   frames, chunks>>
    /\ UNCHANGED rest_vars

\* main.py 190-196: accept, create the conversation if it is new
Connect(c, id) ==
    /\ pc[c] = "closed"
    /\ connects < MaxConnects
    /\ InOrder(c, id)
    /\ connects' = connects + 1
    /\ conversations' = IF id \in DOMAIN conversations
                        THEN conversations
                        ELSE (id :> <<>>) @@ conversations
    /\ pc' = [pc EXCEPT ![c] = "recv"]
    /\ conversation_id' = [conversation_id EXCEPT ![c] = id]
    /\ client_open' = [client_open EXCEPT ![c] = TRUE]
    /\ wire' = [wire EXCEPT ![c] = <<>>]
    /\ provided' = [provided EXCEPT ![c] = <<>>]
    /\ before' = [before EXCEPT ![c] = <<>>]
    /\ UNCHANGED <<full_response, current_messages, iteration, pending_tool_calls,
                   accumulated_text, finish_reason, tool_results, tool_index, call,
                   frames, chunks>>
    /\ UNCHANGED rest_vars

\* The client closes its end of the socket.
ClientClose(c) ==
    /\ pc[c] # "closed"
    /\ client_open[c]
    /\ client_open' = [client_open EXCEPT ![c] = FALSE]
    /\ UNCHANGED <<conversations, pc, conversation_id, wire, full_response,
                   current_messages, iteration, pending_tool_calls, accumulated_text,
                   finish_reason, tool_results, tool_index, call, provided, before,
                   connects, frames, chunks>>
    /\ UNCHANGED rest_vars

\* main.py 201, 250-251: receive_json raises WebSocketDisconnect
RecvDisconnect(c) ==
    /\ pc[c] = "recv"
    /\ ~client_open[c]
    /\ Commit(c, Closed(Local(c)))
    /\ UNCHANGED <<connects, frames, chunks>>

Received(s, frame) == [s EXCEPT !.wire = Append(@, In(frame))]

\* Lines 205-207 without the send of line 206.
RecvPingSilent(c) ==
    /\ pc[c] = "recv"
    /\ client_open[c]
    /\ frames < MaxFrames
    /\ frames' = frames + 1
    /\ Commit(c, Received(Local(c), [type |-> "ping"]))
    /\ UNCHANGED <<connects, chunks>>

\* main.py 205-207
RecvPing(c) ==
    /\ pc[c] = "recv"
    /\ client_open[c]
    /\ frames < MaxFrames
    /\ frames' = frames + 1
    /\ Commit(c, [Received(Local(c), [type |-> "ping"])
                     EXCEPT !.wire = Append(@, Out(PongFrame))])
    /\ UNCHANGED <<connects, chunks>>

\* main.py 202-210: a frame whose type is neither 'ping' nor 'message'
RecvOther(c) ==
    /\ pc[c] = "recv"
    /\ client_open[c]
    /\ frames < MaxFrames
    /\ frames' = frames + 1
    /\ Commit(c, Received(Local(c), [type |-> "other"]))
    /\ UNCHANGED <<connects, chunks>>

\* main.py 253-261: an exception outside the inner try
HandlerError(s, e) == Closed([s EXCEPT !.wire = Append(@, Out(ErrorFrame(<<e>>)))])

\* main.py 214-219
EmptyMessage(s) == [s EXCEPT !.wire = Append(@, Out(ErrorFrame(<<"Empty message">>)))]

\* Lines 221-228 with the user message appended to a copy of the list.
StartTurnOnCopy(s, content) ==
    LoopHead([s EXCEPT !.full_response = <<>>,
                       !.current_messages =
                           <<SystemMsg>> \o Append(s.messages, UserMsg(content)),
                       !.iteration = 0])

\* Lines 221-228 with llm.py 181 building the request from the messages of
\* every stored conversation.
StartTurnEveryConversation(s, content) ==
    LET messages == Append(s.messages, UserMsg(content))
        others == IF s.conversation_id # "A" /\ "A" \in DOMAIN conversations
                  THEN conversations["A"] ELSE <<>>
    IN LoopHead([s EXCEPT !.messages = messages,
                          !.full_response = <<>>,
                          !.current_messages = <<SystemMsg>> \o others \o messages,
                          !.iteration = 0])

\* main.py 221-228 and llm.py 178-185: append the user message, start chat_stream
\* Lines 178-183 where chat_stream puts the system message into the list
\* it was given instead of building a new list.
StartTurnInPlace(s, content) ==
    LET messages == <<SystemMsg>> \o Append(s.messages, UserMsg(content))
    IN LoopHead([s EXCEPT !.messages = messages,
                          !.full_response = <<>>,
                          !.current_messages = messages,
                          !.iteration = 0])

StartTurn(s, content) ==
    LET messages == Append(s.messages, UserMsg(content))
    IN LoopHead([s EXCEPT !.messages = messages,
                          !.full_response = <<>>,
                          !.current_messages = <<SystemMsg>> \o messages,
                          !.iteration = 0])

\* Lines 210-248 without the strip() of line 211.
OnMessageNoStrip(s, raw) ==
    IF raw = NoneText THEN HandlerError(s, "AttributeError")
    ELSE IF raw = <<>> THEN EmptyMessage(s)
    ELSE StartTurn(s, raw)

\* main.py 210-248 up to the first await of chat_stream
OnMessage(s, raw) ==
    IF raw = NoneText THEN HandlerError(s, "AttributeError")
    ELSE IF Strip(raw) = <<>> THEN EmptyMessage(s)
    ELSE StartTurn(s, Strip(raw))

RecvMessage(c, raw) ==
    /\ pc[c] = "recv"
    /\ client_open[c]
    /\ frames < MaxFrames
    /\ frames' = frames + 1
    /\ LET s == Received(Local(c), [type |-> "message", content |-> raw])
       IN Commit(c, OnMessage([s EXCEPT !.provided = <<>>, !.before = s.messages], raw))
    /\ UNCHANGED <<connects, chunks>>

\* llm.py 196-209: acompletion returns the stream
AcompletionOk(c) ==
    /\ pc[c] = "acompletion"
    /\ Commit(c, [Local(c) EXCEPT !.pc = "stream", !.finish_reason = "None"])
    /\ UNCHANGED <<connects, frames, chunks>>

\* llm.py 196, 341-344: acompletion raises
AcompletionFail(c) ==
    /\ pc[c] = "acompletion"
    /\ Commit(c, Raise(Local(c), "provider"))
    /\ UNCHANGED <<connects, frames, chunks>>

Provided(s, chunk) ==
    IF ~chunk.skip /\ chunk.content # <<>>
    THEN Append(s.provided, [iteration |-> s.iteration, text |-> chunk.content])
    ELSE s.provided

\* llm.py 212-260: the stream delivers a chunk
OnChunk(s, chunk) ==
    LET r == ProcessChunk(s, chunk)
    IN Relay([s EXCEPT !.accumulated_text = r.accumulated_text,
                       !.pending_tool_calls = r.pending_tool_calls,
                       !.finish_reason = r.finish_reason,
                       !.provided = Provided(s, chunk)],
             r.events)

StreamChunk(c, chunk) ==
    /\ pc[c] = "stream"
    /\ chunks' = chunks + 1
    /\ Commit(c, OnChunk(Local(c), chunk))
    /\ UNCHANGED <<connects, frames>>

\* llm.py 212, 341-344: reading the stream raises
StreamFail(c) ==
    /\ pc[c] = "stream"
    /\ Commit(c, Raise(Local(c), "provider"))
    /\ UNCHANGED <<connects, frames, chunks>>

\* Lines 262-339 where the tool calls of the last permitted response are
\* not run.
OnStreamEndCapped(s) ==
    IF s.pending_tool_calls # <<>> /\ LoopGuard(s.iteration)
    THEN StartTool([s EXCEPT !.tool_results = <<>>, !.tool_index = 1])
    ELSE Finalize(s)

\* llm.py 262-339: the stream is exhausted
OnStreamEnd(s) ==
    IF s.pending_tool_calls # <<>>
    THEN StartTool([s EXCEPT !.tool_results = <<>>, !.tool_index = 1])
    ELSE Finalize(s)

StreamEnd(c) ==
    /\ pc[c] = "stream"
    /\ Commit(c, OnStreamEnd(Local(c)))
    /\ UNCHANGED <<connects, frames, chunks>>

\* Lines 287-331 without the yield of lines 294-300.
OnToolReturnNoEvent(s, outcome) ==
    LET tc == s.pending_tool_calls[s.tool_index]
        result == ToolResult(outcome, s.call.name)
        u == [s EXCEPT !.tool_results = Append(@, ToolMsg(tc, result)), !.call = NoCall]
    IN IF s.tool_index < Len(s.pending_tool_calls)
       THEN StartTool([u EXCEPT !.tool_index = @ + 1])
       ELSE Continue(u)

\* Lines 282-331 without the except clause of 287-289: a failure of
\* call_tool leaves the loop at 341-344.
OnToolReturnUncaught(s, outcome) ==
    IF outcome = "raise" THEN Raise(s, "MCP tool failed")
    ELSE LET tc == s.pending_tool_calls[s.tool_index]
             result == ToolResult(outcome, s.call.name)
             t == Relay(s, <<ToolResultEvent(tc, result)>>)
             u == [t EXCEPT !.tool_results = Append(@, ToolMsg(tc, result)),
                            !.call = NoCall]
         IN IF t.pc = "closed" THEN t
            ELSE IF s.tool_index < Len(s.pending_tool_calls)
                 THEN StartTool([u EXCEPT !.tool_index = @ + 1])
                 ELSE Continue(u)

\* Lines 287-331 where the loop over the batch is left after the first result.
OnToolReturnEager(s, outcome) ==
    LET tc == s.pending_tool_calls[s.tool_index]
        result == ToolResult(outcome, s.call.name)
        t == Relay(s, <<ToolResultEvent(tc, result)>>)
        u == [t EXCEPT !.tool_results = Append(@, ToolMsg(tc, result)), !.call = NoCall]
    IN IF t.pc = "closed" THEN t ELSE Continue(u)

\* llm.py 287-331: call_tool returned or raised
OnToolReturn(s, outcome) ==
    LET tc == s.pending_tool_calls[s.tool_index]
        result == ToolResult(outcome, s.call.name)
        t == Relay(s, <<ToolResultEvent(tc, result)>>)
        u == [t EXCEPT !.tool_results = Append(@, ToolMsg(tc, result)), !.call = NoCall]
    IN IF t.pc = "closed" THEN t
       ELSE IF s.tool_index < Len(s.pending_tool_calls)
            THEN StartTool([u EXCEPT !.tool_index = @ + 1])
            ELSE Continue(u)

ToolReturn(c, outcome) ==
    /\ pc[c] = "tool"
    /\ Commit(c, OnToolReturn(Local(c), outcome))
    /\ UNCHANGED <<connects, frames, chunks>>

Next ==
    \/ \E c \in Conns, id \in ConvIds : Connect(c, id)
    \/ \E c \in Conns : ClientClose(c)
    \/ \E c \in Conns : RecvDisconnect(c)
    \/ \E c \in Conns : RecvPing(c)
    \/ \E c \in Conns : RecvOther(c)
    \/ \E c \in Conns, raw \in RawContents : RecvMessage(c, raw)
    \/ \E c \in Conns : AcompletionOk(c)
    \/ \E c \in Conns : AcompletionFail(c)
    \/ \E c \in Conns, chunk \in Chunks : chunks < MaxChunks /\ StreamChunk(c, chunk)
    \/ \E c \in Conns : StreamFail(c)
    \/ \E c \in Conns : StreamEnd(c)
    \/ \E c \in Conns, outcome \in ToolOutcomes : ToolReturn(c, outcome)

Spec == Init /\ [][Next]_vars

\* ------------------------------------------------------------ a model that always calls a tool
\* One connection, one user message, and a provider whose every response
\* requests one tool call.
CapChunks ==
    { Chunk(<<>>, <<OpenT1>>, "tool_calls") }

\* The steps of the turn: the provider answers, the stream delivers its
\* tool call and ends, the backend call returns or raises.
TurnStep ==
    \/ AcompletionOk(1)
    \/ \E chunk \in CapChunks : pending_tool_calls[1] = <<>> /\ StreamChunk(1, chunk)
    \/ pending_tool_calls[1] # <<>> /\ StreamEnd(1)
    \/ \E outcome \in ToolOutcomes : ToolReturn(1, outcome)

NextCap ==
    \/ Connect(1, "A")
    \/ wire[1] = <<>> /\ RecvMessage(1, <<"q", " ">>)
    \/ TurnStep

\* The event loop runs a task whose await has completed, and the provider
\* and the backend answer every request.
SpecCap == Init /\ [][NextCap]_vars /\ WF_vars(TurnStep)

\* ------------------------------------------------------------ one connection, every input
\* One connection on one conversation, with the wider choice of frame
\* contents, of chunks and of tool outcomes.
NextRich ==
    \/ Connect(1, "A")
    \/ ClientClose(1)
    \/ RecvDisconnect(1)
    \/ RecvPing(1)
    \/ RecvOther(1)
    \/ \E raw \in RichRawContents : RecvMessage(1, raw)
    \/ AcompletionOk(1)
    \/ AcompletionFail(1)
    \/ \E chunk \in RichChunks : chunks < MaxChunks /\ StreamChunk(1, chunk)
    \/ StreamFail(1)
    \/ StreamEnd(1)
    \/ \E outcome \in RichToolOutcomes : ToolReturn(1, outcome)

SpecRich == Init /\ [][NextRich]_vars

\* The same, where nothing obliges the client, the provider or the tool
\* backend to act; only the transport is sure to report a closed socket to
\* a task that waits in receive_json.
SpecSilent == Init /\ [][NextRich]_vars /\ WF_vars(RecvDisconnect(1))

\* ------------------------------------------------------------ the REST endpoints beside one connection
\* main.py 268-273: POST /api/conversations.  uuid4 gives an identifier
\* no conversation has yet.
create_conversation(id) ==
    /\ id \notin DOMAIN conversations
    /\ id = "B" => "A" \in DOMAIN conversations
    /\ conversations' = (id :> <<>>) @@ conversations
    /\ UNCHANGED <<pc, conversation_id, client_open, wire, full_response,
                   current_messages, iteration, pending_tool_calls, accumulated_text,
                   finish_reason, tool_results, tool_index, call, provided, before,
                   connects, frames, chunks>>
    /\ UNCHANGED rest_vars

\* One connection slot, opened on either conversation, and conversations
\* created over REST.
NextRest ==
    \/ \E id \in ConvIds : create_conversation(id)
    \/ \E id \in ConvIds : Connect(1, id)
    \/ ClientClose(1)
    \/ RecvDisconnect(1)
    \/ RecvPing(1)
    \/ RecvOther(1)
    \/ \E raw \in RawContents : RecvMessage(1, raw)
    \/ AcompletionOk(1)
    \/ AcompletionFail(1)
    \/ \E chunk \in Chunks : chunks < MaxChunks /\ StreamChunk(1, chunk)
    \/ StreamFail(1)
    \/ StreamEnd(1)
    \/ \E outcome \in ToolOutcomes : ToolReturn(1, outcome)

SpecRest == Init /\ [][NextRest]_vars

\* ------------------------------------------------------------ the same message to two fresh conversations
\* A provider and a tool backend that behave identically in every run:
\* what they answer is a function of the request they are given.  Each chunk
\* of a scripted stream carries one character of text or one new tool call.
TwinContents == {<<"q">>, <<"t">>, <<"e">>, <<"x">>}

Stream(raises, stream, breaks) == [raises |-> raises, stream |-> stream, breaks |-> breaks]

\* The answer of acompletion to this request: it raises, or returns a
\* stream that delivers these chunks and then ends or breaks.
Script(request) ==
    LET last == request[Len(request)]
        users == Cardinality({i \in 1..Len(request) : request[i].role = "user"})
    IN IF users # 1
       THEN Stream(FALSE, <<Chunk(<<"b">>, <<>>, "stop")>>, FALSE)
       ELSE IF last.role = "user"
       THEN CASE last.content = <<"q">> ->
                     Stream(FALSE, <<Chunk(<<"a">>, <<>>, "None"),
                                     Chunk(<<"b">>, <<>>, "stop")>>, FALSE)
              [] last.content = <<"t">> ->
                     Stream(FALSE, <<Chunk(<<"a">>, <<>>, "None"),
                                     Chunk(<<>>, <<OpenT1>>, "None")>>, FALSE)
              [] last.content = <<"e">> ->
                     Stream(FALSE, <<Chunk(<<>>, <<OpenT2>>, "tool_calls")>>, FALSE)
              [] OTHER -> Stream(TRUE, <<>>, FALSE)
       ELSE IF last.content.of.kind = "list"
            THEN Stream(FALSE, <<Chunk(<<"b">>, <<>>, "stop")>>, FALSE)
            ELSE Stream(FALSE, <<Chunk(<<"a">>, <<>>, "None")>>, TRUE)

\* What call_tool does with this call.
Backend(invocation) ==
    IF invocation.name = tool_mapping("list_repositories") THEN "list" ELSE "raise"

\* The chunks of the current stream that connection c has consumed.
Consumed(c) == Len(accumulated_text[c]) + Len(pending_tool_calls[c])

TwinId(c) == IF c = 1 THEN "A" ELSE "B"

\* Both clients send the same message, once.
SameMessage(c, raw) ==
    /\ wire[c] = <<>>
    /\ \A d \in Conns : wire[d] # <<>> => raw = wire[d][1].frame.content

NextTwin ==
    \/ \E c \in Conns : Connect(c, TwinId(c))
    \/ \E c \in Conns, raw \in TwinContents : SameMessage(c, raw) /\ RecvMessage(c, raw)
    \/ \E c \in Conns :
           pc[c] = "acompletion" /\ ~Script(current_messages[c]).raises /\ AcompletionOk(c)
    \/ \E c \in Conns :
           pc[c] = "acompletion" /\ Script(current_messages[c]).raises /\ AcompletionFail(c)
    \/ \E c \in Conns :
           /\ pc[c] = "stream"
           /\ Consumed(c) < Len(Script(current_messages[c]).stream)
           /\ StreamChunk(c, Script(current_messages[c]).stream[Consumed(c) + 1])
    \/ \E c \in Conns :
           /\ pc[c] = "stream"
           /\ Consumed(c) = Len(Script(current_messages[c]).stream)
           /\ Script(current_messages[c]).breaks
           /\ StreamFail(c)
    \/ \E c \in Conns :
           /\ pc[c] = "stream"
           /\ Consumed(c) = Len(Script(current_messages[c]).stream)
           /\ ~Script(current_messages[c]).breaks
           /\ StreamEnd(c)
    \/ \E c \in Conns : pc[c] = "tool" /\ ToolReturn(c, Backend(call[c]))

SpecTwin == Init /\ [][NextTwin]_vars

\* ------------------------------------------------------------ reading a transcript
IsIn(w, i, type) == w[i].dir = "in" /\ w[i].frame.type = type

IsOut(w, i, type) == w[i].dir = "out" /\ w[i].frame.type = type

IsTerminator(w, i) == IsOut(w, i, "done") \/ IsOut(w, i, "error")

Count(w, type) == Cardinality({i \in 1..Len(w) : IsOut(w, i, type)})

\* The index of the first inbound frame after position i, Len(w) + 1 if none.
NextIn(w, i) ==
    IF \E j \in (i + 1)..Len(w) : w[j].dir = "in"
    THEN CHOOSE j \in (i + 1)..Len(w) :
             /\ w[j].dir = "in"
             /\ \A k \in (i + 1)..(j - 1) : w[k].dir = "out"
    ELSE Len(w) + 1

\* The index of the last inbound 'message' frame, 0 if none.
LastMessage(w) ==
    IF \E i \in 1..Len(w) : IsIn(w, i, "message")
    THEN CHOOSE i \in 1..Len(w) :
             /\ IsIn(w, i, "message")
             /\ \A j \in (i + 1)..Len(w) : ~IsIn(w, j, "message")
    ELSE 0

\* The frames sent in answer to the last 'message' frame.
Turn(w) ==
    IF LastMessage(w) = 0 THEN <<>>
    ELSE SubSeq(w, LastMessage(w) + 1, NextIn(w, LastMessage(w)) - 1)

InTurn(c) == pc[c] \in {"acompletion", "stream", "tool"}

\* The turn of the last 'message' frame has ended with this frame type.
Ended(c, type) ==
    /\ ~InTurn(c)
    /\ Turn(wire[c]) # <<>>
    /\ IsOut(Turn(wire[c]), Len(Turn(wire[c])), type)

\* ------------------------------------------------------------ C1
\* C1: every inbound 'message' frame is answered by exactly one terminating
\* frame, a 'done' or an 'error', which is the last frame sent before the
\* next inbound frame is read; while the turn runs none has been sent, and a
\* turn whose client went away may end with none.
C1_Segment(c, i) ==
    LET w == wire[c]
        j == NextIn(w, i)
        terminators == {k \in (i + 1)..(j - 1) : IsTerminator(w, k)}
    IN /\ Cardinality(terminators) <= 1
       /\ terminators # {} => terminators = {j - 1}
       /\ (j <= Len(w) \/ pc[c] = "recv") => terminators # {}
       /\ (j > Len(w) /\ InTurn(c)) => terminators = {}

C1_OneTerminator ==
    \A c \in Conns : \A i \in 1..Len(wire[c]) :
        IsIn(wire[c], i, "message") => C1_Segment(c, i)

\* Two 'message' frames on one connection, the first answered by 'done'
\* and the second by 'error'.
C1_Witness ==
    \E c \in Conns :
        /\ pc[c] = "recv"
        /\ Count(wire[c], "done") = 1
        /\ Count(wire[c], "error") = 1
        /\ Cardinality({i \in 1..Len(wire[c]) : IsIn(wire[c], i, "message")}) = 2
        /\ IsOut(wire[c], Len(wire[c]), "error")

\* ------------------------------------------------------------ C2
\* The text the provider delivered in the turn, in the order of delivery.
RECURSIVE Concat(_)
Concat(fragments) ==
    IF fragments = <<>> THEN <<>>
    ELSE Head(fragments).text \o Concat(Tail(fragments))

NoToolCall(c) == Count(Turn(wire[c]), "tool_use_start") = 0

Stored(c) == conversations[conversation_id[c]]

\* The provider stream of a turn without tool calls ends, the client
\* listening: 'done' is the one terminating frame of the turn.
C2_Done(c) ==
    /\ wire'[c] = Append(wire[c], Out(DoneFrame))
    /\ Count(Turn(wire'[c]), "done") = 1
    /\ Count(Turn(wire'[c]), "error") = 0

\* C2 as amended: when a well-formed provider stream without tool calls
\* ends, exactly one 'done' is sent and, if the turn delivered any text, the
\* conversation gains exactly one assistant message whose content is the
\* concatenation of the text fragments in the order of delivery; a turn
\* without text appends no assistant message.
C2_TextOnlyTurn ==
    [][\A c \in Conns :
          (StreamEnd(c) /\ client_open[c] /\ NoToolCall(c)) =>
              /\ C2_Done(c)
              /\ conversations' =
                     [conversations EXCEPT ![conversation_id[c]] =
                         IF Concat(provided[c]) # <<>>
                         THEN Append(@, AssistantMsg(Concat(provided[c])))
                         ELSE @]]_vars

\* C2 as stated: an assistant message is appended for every such stream,
\* also for one without any text fragment.
C2_AsStated ==
    [][\A c \in Conns :
          (StreamEnd(c) /\ client_open[c] /\ NoToolCall(c)) =>
              /\ C2_Done(c)
              /\ conversations' =
                     [conversations EXCEPT ![conversation_id[c]] =
                         Append(@, AssistantMsg(Concat(provided[c])))]]_vars

\* A turn of two text fragments and no tool call has ended with 'done' and
\* its assistant message is the last of the stored history.
C2_Witness ==
    \E c \in Conns :
        /\ Ended(c, "done")
        /\ NoToolCall(c)
        /\ Len(provided[c]) = 2
        /\ Concat(provided[c]) = <<"a", "b">>
        /\ Stored(c) # <<>>
        /\ Stored(c)[Len(Stored(c))] = AssistantMsg(<<"a", "b">>)

\* ------------------------------------------------------------ C3
OneToolCall(c) == Count(Turn(wire[c]), "tool_use_start") = 1

TheIndex(t, type) == CHOOSE i \in 1..Len(t) : IsOut(t, i, type)

\* The contents of the text frames of t, in order.
RECURSIVE TextFrames(_)
TextFrames(t) ==
    IF t = <<>> THEN <<>>
    ELSE (IF Head(t).frame.type = "text" THEN <<Head(t).frame.content>> ELSE <<>>)
         \o TextFrames(Tail(t))

\* The text fragments the provider delivered in iteration k of the turn.
RECURSIVE ProvidedIn(_, _)
ProvidedIn(fragments, k) ==
    IF fragments = <<>> THEN <<>>
    ELSE (IF Head(fragments).iteration = k THEN <<Head(fragments).text>> ELSE <<>>)
         \o ProvidedIn(Tail(fragments), k)

\* C3 as stated: a turn with exactly one tool call shows the client
\* tool_use_start, tool_result, then text events only, then done.
C3_AsStated ==
    \A c \in Conns :
        (Ended(c, "done") /\ OneToolCall(c)) =>
            LET t == Turn(wire[c])
            IN /\ Len(t) >= 3
               /\ IsOut(t, 1, "tool_use_start")
               /\ IsOut(t, 2, "tool_result")
               /\ \A i \in 3..(Len(t) - 1) : IsOut(t, i, "text")

\* C3 as amended: a turn with exactly one tool call that ends with 'done'
\* shows the client one tool_use_start, later one tool_result of the same
\* call, and 'done' last; the text sent before the tool_result is exactly the
\* text of the provider stream that requested the tool, the text sent after
\* it exactly the text of the continuation stream.
C3_OneToolSequence ==
    \A c \in Conns :
        (Ended(c, "done") /\ OneToolCall(c)) =>
            LET t == Turn(wire[c])
                s == TheIndex(t, "tool_use_start")
                r == TheIndex(t, "tool_result")
            IN /\ Count(t, "tool_result") = 1
               /\ s < r
               /\ t[r].frame.toolId = t[s].frame.toolId
               /\ t[r].frame.name = t[s].frame.name
               /\ TextFrames(SubSeq(t, 1, r - 1)) = ProvidedIn(provided[c], 1)
               /\ TextFrames(SubSeq(t, r + 1, Len(t))) = ProvidedIn(provided[c], 2)
               /\ Len(provided[c]) =
                      Len(ProvidedIn(provided[c], 1)) + Len(ProvidedIn(provided[c], 2))

\* The scenario of the specification: the first stream requests
\* list_repositories and carries no text, the continuation answers in text.
C3_Witness ==
    \E c \in Conns :
        /\ Ended(c, "done")
        /\ OneToolCall(c)
        /\ LET t == Turn(wire[c])
           IN /\ Len(t) = 4
              /\ IsOut(t, 1, "tool_use_start")
              /\ t[1].frame.name = "list_repositories"
              /\ IsOut(t, 2, "tool_result")
              /\ IsOut(t, 3, "text")
              /\ IsOut(t, 4, "done")

\* ------------------------------------------------------------ C4
HasToolCalls(m) == "tool_calls" \in DOMAIN m

\* C4 as stated: after a turn with one tool call has ended with 'done', the
\* stored history holds, after what it held before the turn, the user
\* message, an assistant tool-call message and the tool-result message.
C4_AsStated ==
    \A c \in Conns :
        (Ended(c, "done") /\ OneToolCall(c)) =>
            LET n == Len(before[c])
                h == Stored(c)
            IN /\ Len(h) >= n + 3
               /\ h[n + 1].role = "user"
               /\ h[n + 2].role = "assistant" /\ HasToolCalls(h[n + 2])
               /\ h[n + 3].role = "tool"

\* The stored history holds user messages and assistant text messages only.
C4_StoredPlain ==
    \A id \in DOMAIN conversations : \A i \in 1..Len(conversations[id]) :
        /\ conversations[id][i].role \in {"user", "assistant"}
        /\ ~HasToolCalls(conversations[id][i])

\* The request history of the second model request of a turn: the system
\* message, the history of the turn's start, the assistant tool-call message
\* and the tool-result message of each of its tool calls, in order.
C4_RequestHistory ==
    \A c \in Conns :
        (pc[c] \in {"acompletion", "stream"} /\ iteration[c] = 2) =>
            LET cm == current_messages[c]
                n == Len(before[c])
            IN /\ Len(cm) >= n + 4
               /\ cm[1] = SystemMsg
               /\ SubSeq(cm, 2, n + 1) = before[c]
               /\ cm[n + 2].role = "user"
               /\ cm[n + 3].role = "assistant" /\ HasToolCalls(cm[n + 3])
               /\ Len(cm) = n + 3 + Len(cm[n + 3].tool_calls)
               /\ \A k \in 1..Len(cm[n + 3].tool_calls) :
                      /\ cm[n + 3 + k].role = "tool"
                      /\ cm[n + 3 + k].tool_call_id = cm[n + 3].tool_calls[k].id

\* The step that sends 'done' for a turn with one tool call appends the
\* assistant text message, if the turn had text, and nothing else.
C4_DoneStep ==
    \A c \in Conns :
        (InTurn(c) /\ OneToolCall(c) /\ wire'[c] = Append(wire[c], Out(DoneFrame))) =>
            conversations' =
                [conversations EXCEPT ![conversation_id[c]] =
                    IF Concat(provided[c]) # <<>>
                    THEN Append(@, AssistantMsg(Concat(provided[c])))
                    ELSE @]

\* C4 as amended: a turn with one tool call that ends with 'done' adds to
\* the stored history the user message and the finalized assistant text
\* message only; the assistant tool-call message and the tool-result message
\* are added to the request history sent back to the model and never stored.
C4_ToolPairNotStored ==
    /\ [](C4_StoredPlain /\ C4_RequestHistory)
    /\ [][C4_DoneStep]_vars

\* A turn with one tool call and a text answer has ended: the stored
\* history gained [user, assistant(text)].
C4_Witness ==
    \E c \in Conns :
        /\ Ended(c, "done")
        /\ OneToolCall(c)
        /\ Count(Turn(wire[c]), "tool_result") = 1
        /\ Stored(c) = before[c] \o <<UserMsg(<<"q">>), AssistantMsg(<<"a">>)>>

\* ------------------------------------------------------------ C5
\* The model provider fails: acompletion raises, or reading the stream does.
ProviderFails(c) == AcompletionFail(c) \/ StreamFail(c)

ProviderError == ErrorFrame(<<"Chat error", "provider">>)

\* C5: when the provider fails in any iteration of a turn, the client still
\* listening, the turn ends with one 'error' frame and no 'done', the frames
\* sent before stay as they were sent, every text fragment delivered until
\* then has been relayed, and no message is appended to the conversation.
C5_ProviderFailure ==
    [][\A c \in Conns :
          (ProviderFails(c) /\ client_open[c]) =>
              /\ wire'[c] = Append(wire[c], Out(ProviderError))
              /\ Count(Turn(wire'[c]), "error") = 1
              /\ Count(Turn(wire'[c]), "done") = 0
              /\ TextFrames(Turn(wire'[c])) =
                     [i \in 1..Len(provided[c]) |-> provided[c][i].text]
              /\ pc'[c] = "recv"
              /\ conversations' = conversations]_vars

\* The provider failed in the continuation of a turn, after text and a
\* tool result had been sent.
C5_Witness ==
    \E c \in Conns :
        /\ Ended(c, "error")
        /\ LET t == Turn(wire[c])
           IN /\ t[Len(t)].frame = ProviderError
              /\ Count(t, "text") = 1
              /\ Count(t, "tool_result") = 1
        /\ Stored(c)[Len(Stored(c))].role = "user"

\* ------------------------------------------------------------ C6
\* The user message of the running turn.
TurnUserMsg(c) == UserMsg(Strip(wire[c][LastMessage(wire[c])].frame.content))

\* C6 as stated: after the 'error' of a provider failure the stored history
\* is what it was before the user message of the turn arrived.
C6_AsStated ==
    [][\A c \in Conns :
          (ProviderFails(c) /\ client_open[c]) => Stored(c)' = before[c]]_vars

\* A step of connection c's task.
Moved(c) ==
    <<pc[c], wire[c], iteration[c], pending_tool_calls[c], accumulated_text[c],
      finish_reason[c], tool_index[c], call[c]>>' #
    <<pc[c], wire[c], iteration[c], pending_tool_calls[c], accumulated_text[c],
      finish_reason[c], tool_index[c], call[c]>>

\* chat_stream ran to its end on connection c in this step.
Finalized(c) == wire'[c] = Append(wire[c], Out(DoneFrame)) \/ pc'[c] = "closed"

\* C6 as amended: a turn aborted by a provider failure commits its user
\* message and nothing else: at the 'error' the stored history starts with
\* the history of before the turn followed by the user message, which is
\* not removed, and no step of a turn other than its finalization changes
\* the store.
C6_UserMessageStays ==
    [][\A c \in Conns :
          /\ (ProviderFails(c) /\ client_open[c]) =>
                 /\ Len(Stored(c)') >= Len(before[c]) + 1
                 /\ SubSeq(Stored(c)', 1, Len(before[c]) + 1) =
                        Append(before[c], TurnUserMsg(c))
          /\ (InTurn(c) /\ Moved(c) /\ ~Finalized(c)) =>
                 conversations' = conversations]_vars

\* The second turn of a conversation was aborted by a provider failure: the
\* stored history is the first turn's followed by the second user message.
C6_Witness ==
    \E c \in Conns :
        /\ Ended(c, "error")
        /\ Turn(wire[c])[Len(Turn(wire[c]))].frame = ProviderError
        /\ before[c] = <<UserMsg(<<"q">>), AssistantMsg(<<"a">>)>>
        /\ Stored(c) = Append(before[c], UserMsg(<<"q">>))

\* ------------------------------------------------------------ C7
\* C7: two connections on the same conversation never run a turn at the
\* same time.
C7_Serialized ==
    \A c, d \in Conns :
        (c # d /\ conversation_id[c] = conversation_id[d]) =>
            ~(InTurn(c) /\ InTurn(d))

\* ------------------------------------------------------------ C8
\* The result recorded for a tool call whose backend call raised.
ErrorResult(mcp_name) ==
    [kind |-> "dict", data |-> <<"error">> \o ToolFailure(mcp_name)]

IsErrorResult(f) ==
    /\ f.type = "tool_result"
    /\ f.result.kind = "dict"
    /\ Head(f.result.data) = "error"

\* No 'error' frame reports the failure of a tool.
NoToolFailureFrame ==
    \A c \in Conns : \A i \in 1..Len(wire[c]) :
        IsOut(wire[c], i, "error") =>
            \A k \in 1..Len(wire[c][i].frame.message) :
                wire[c][i].frame.message[k] # "MCP tool failed"

\* The backend call of the running tool call raises.
ToolFailureStep(c) ==
    LET tc == pending_tool_calls[c][tool_index[c]]
        result == ErrorResult(call[c].name)
    IN /\ Len(wire'[c]) > Len(wire[c])
       /\ SubSeq(wire'[c], 1, Len(wire[c]) + 1) =
              Append(wire[c], Out(ToolResultEvent(tc, result)))
       /\ Count(Turn(wire'[c]), "error") = 0
       /\ \/ /\ pc'[c] = "tool"
             /\ tool_results'[c] = Append(tool_results[c], ToolMsg(tc, result))
          \/ /\ pc'[c] = "acompletion"
             /\ current_messages'[c][Len(current_messages'[c])] = ToolMsg(tc, result)
          \/ Ended(c, "done")'

\* C8: when the backend call of a tool raises, the client listening, the
\* next frame sent is the tool_result of that call carrying the error
\* marker and the failure message, the same result becomes the tool message
\* of the request history, and the turn goes on (to the next tool call, to
\* the next model request, or to 'done'); no 'error' frame ever reports a
\* tool failure.
C8_ToolFailureAbsorbed ==
    /\ []NoToolFailureFrame
    /\ [][\A c \in Conns :
             (ToolReturn(c, "raise") /\ client_open[c]) => ToolFailureStep(c)]_vars

\* A turn whose tool call failed ended with 'done'.
C8_Witness ==
    \E c \in Conns :
        /\ Ended(c, "done")
        /\ \E i \in 1..Len(Turn(wire[c])) : IsErrorResult(Turn(wire[c])[i].frame)

\* ------------------------------------------------------------ C9
\* The argument text of a tool call is not JSON.
BadArguments(tc) == tc.arguments # <<>> /\ ~json_loads(tc.arguments).ok

\* What the backend is called with when the model supplied no argument.
NoModelArguments(tc) ==
    [name |-> tool_mapping(tc.name), arguments |-> [k \in {"org"} |-> GITHUB_ORG]]

\* The backend call for a tool call with bad arguments is under way.
C9_Called ==
    \A c \in Conns :
        (pc[c] = "tool" /\ BadArguments(pending_tool_calls[c][tool_index[c]])) =>
            /\ call[c] = NoModelArguments(pending_tool_calls[c][tool_index[c]])
            /\ Count(Turn(wire[c]), "error") = 0

\* The step that parses the arguments of the next tool call starts the
\* backend call and sends no 'error'.
C9_Parsed(c) ==
    /\ (StreamEnd(c) /\ pending_tool_calls[c] # <<>>
           /\ BadArguments(pending_tool_calls[c][1])) =>
           /\ pc'[c] = "tool"
           /\ tool_index'[c] = 1
           /\ wire'[c] = wire[c]
    /\ ((\E o \in ToolOutcomes : ToolReturn(c, o)) /\ client_open[c]
           /\ tool_index[c] < Len(pending_tool_calls[c])
           /\ BadArguments(pending_tool_calls[c][tool_index[c] + 1])) =>
           /\ pc'[c] = "tool"
           /\ tool_index'[c] = tool_index[c] + 1
           /\ Count(Turn(wire'[c]), "error") = 0

\* The backend call for a tool call with bad arguments returns or raises.
C9_Returned(c) ==
    ((\E o \in ToolOutcomes : ToolReturn(c, o)) /\ client_open[c]
        /\ BadArguments(pending_tool_calls[c][tool_index[c]])) =>
        /\ Len(wire'[c]) > Len(wire[c])
        /\ IsOut(wire'[c], Len(wire[c]) + 1, "tool_result")
        /\ wire'[c][Len(wire[c]) + 1].frame.toolId =
               pending_tool_calls[c][tool_index[c]].id
        /\ Count(Turn(wire'[c]), "error") = 0

\* C9: a tool call whose accumulated argument text is not JSON is executed
\* with the organisation as its only argument, nothing the model supplied;
\* parsing sends no 'error' frame and does not end the turn, and the
\* tool_result of the call is sent when the backend call is over.
C9_BadArguments ==
    /\ []C9_Called
    /\ [][\A c \in Conns : C9_Parsed(c) /\ C9_Returned(c)]_vars

\* A turn with a tool call whose argument text was "{" ended with 'done',
\* its tool_result sent.
C9_Witness ==
    \E c \in Conns :
        /\ Ended(c, "done")
        /\ \E i \in 1..Len(Turn(wire[c])) :
               /\ IsOut(Turn(wire[c]), i, "tool_result")
               /\ Turn(wire[c])[i].frame.toolId = OpenT2.id

\* ------------------------------------------------------------ C10
\* The model requests of the turn: each response carries one tool call, so
\* they are counted by the tool_use_start frames.
ModelRequests(c) == Count(Turn(wire[c]), "tool_use_start")

C10_Bounded ==
    /\ iteration[1] <= max_iterations
    /\ ModelRequests(1) <= max_iterations
    /\ Count(wire[1], "error") = 0
    /\ Ended(1, "done") => /\ ModelRequests(1) = max_iterations
                           /\ Count(Turn(wire[1]), "tool_result") = max_iterations

\* C10: with a model that requests a tool call in every response, a turn
\* makes at most max_iterations = 10 model requests, then ends: every turn
\* that started ends with 'done', after exactly 10 requests and 10 tool
\* results, and no 'error' frame is sent.
C10_IterationCap ==
    /\ []C10_Bounded
    /\ (InTurn(1) ~> Ended(1, "done"))

\* The turn was stopped by the cap: ten tool calls, then 'done'.
C10_Witness ==
    /\ Ended(1, "done")
    /\ ModelRequests(1) = 10
    /\ Len(Turn(wire[1])) = 21

\* ------------------------------------------------------------ C11
\* C11: every turn that has started ends with 'done' or 'error', or its
\* client goes away, whether or not the provider and the tool backend ever
\* answer.
C11_AlwaysAnswered ==
    (InTurn(1) /\ client_open[1]) ~>
        (Ended(1, "done") \/ Ended(1, "error") \/ ~client_open[1])

\* ------------------------------------------------------------ C12
\* The frames the server sent in a step that took the transcript from w to w2.
RECURSIVE OutFrames(_)
OutFrames(w) ==
    IF w = <<>> THEN <<>>
    ELSE (IF Head(w).dir = "out" THEN <<Head(w)>> ELSE <<>>) \o OutFrames(Tail(w))

SentIn(w, w2) == OutFrames(SubSeq(w2, Len(w) + 1, Len(w2)))

\* sent is the events, each as it was produced and in their order, followed
\* by at most one frame of the transport's own.
Verbatim(sent, events) ==
    /\ Len(sent) \in {Len(events), Len(events) + 1}
    /\ SubSeq(sent, 1, Len(events)) = OutAll(events)
    /\ Len(sent) = Len(events) + 1 =>
           sent[Len(sent)].frame.type \in {"done", "error", "pong"}

\* What this step of connection c sent is what chat_stream produced in it:
\* the events of the chunk in a step that consumes a chunk, the tool_result
\* in a step that ends a backend call, nothing in any other step.
VerbatimStep(c) ==
    LET sent == SentIn(wire[c], wire'[c])
    IN /\ \A chunk \in RichChunks :
              StreamChunk(c, chunk) =>
                  Verbatim(sent, ProcessChunk(Local(c), chunk).events)
       /\ \A outcome \in RichToolOutcomes :
              ToolReturn(c, outcome) =>
                  Verbatim(sent,
                           <<ToolResultEvent(pending_tool_calls[c][tool_index[c]],
                                             ToolResult(outcome, call[c].name))>>)
       /\ (chunks' = chunks /\ pc[c] # "tool") => Verbatim(sent, <<>>)

\* C12: in every step of a connection whose client listens, the frames
\* sent are the events chat_stream produced in that step, unchanged, each
\* once and in the order of production, followed by at most one frame of
\* the transport's own (done, error or pong); frames already sent are never
\* changed.
C12_Verbatim ==
    [][(pc[1] # "closed" /\ client_open[1]) =>
          /\ Len(wire'[1]) >= Len(wire[1])
          /\ SubSeq(wire'[1], 1, Len(wire[1])) = wire[1]
          /\ VerbatimStep(1)]_vars

\* One chunk carried text and a tool call: the turn shows the text, the
\* tool_use_start, the tool_result and 'done', in this order.
C12_Witness ==
    /\ Ended(1, "done")
    /\ chunks = 1
    /\ LET t == Turn(wire[1])
       IN /\ Len(t) = 4
          /\ IsOut(t, 1, "text")
          /\ IsOut(t, 2, "tool_use_start")
          /\ IsOut(t, 3, "tool_result")

\* ------------------------------------------------------------ C13
EmptyMessageError == ErrorFrame(<<"Empty message">>)

\* C13: a 'message' frame whose content is empty or blank is answered by
\* the one frame error("Empty message"); no model request is started, no
\* conversation changes, and the connection waits for the next frame.
C13_EmptyMessage ==
    [][\A raw \in RichRawContents :
          (RecvMessage(1, raw) /\ raw # NoneText /\ Strip(raw) = <<>>) =>
              /\ wire'[1] = wire[1] \o
                     <<In([type |-> "message", content |-> raw]), Out(EmptyMessageError)>>
              /\ conversations' = conversations
              /\ pc'[1] = "recv"
              /\ client_open'[1]
              /\ iteration'[1] = 0
              /\ current_messages'[1] = <<>>]_vars

\* An empty message was refused and the next message of the connection was
\* answered with 'done'.
C13_Witness ==
    /\ Ended(1, "done")
    /\ Len(wire[1]) >= 4
    /\ wire[1][1] = In([type |-> "message", content |-> <<>>])
    /\ wire[1][2] = Out(EmptyMessageError)
    /\ Count(wire[1], "error") = 1

\* ------------------------------------------------------------ C14
\* C14: the stored history of a conversation is left as it is when a
\* connection on it closes and when a later connection is opened on it, and
\* the request history built for a user message is the system prompt, the
\* whole stored history in its order, then the new user message.
C14_Resumable ==
    [][/\ \A c \in Conns, id \in ConvIds :
              (Connect(c, id) /\ id \in DOMAIN conversations) =>
                  conversations' = conversations
       /\ \A c \in Conns :
              (ClientClose(c) \/ RecvDisconnect(c)) => conversations' = conversations
       /\ \A c \in Conns, raw \in RawContents :
              (RecvMessage(c, raw) /\ pc'[c] = "acompletion") =>
                  current_messages'[c] =
                      <<SystemMsg>> \o Stored(c) \o <<UserMsg(Strip(raw))>>]_vars

\* Two text-only turns over two successive connections (the same slot,
\* closed and opened again): the accessor returns user, assistant, user,
\* assistant.
C14_Witness ==
    /\ Ended(1, "done")
    /\ connects = 2
    /\ pc[2] = "closed" /\ wire[2] = <<>>
    /\ Cardinality({i \in 1..Len(wire[1]) : IsIn(wire[1], i, "message")}) = 1
    /\ get_conversation_messages(conversation_id[1]).body =
           <<UserMsg(<<"q">>), AssistantMsg(<<"a">>),
             UserMsg(<<"q">>), AssistantMsg(<<"b">>)>>

\* ------------------------------------------------------------ C15
\* C15: once the client of a running turn has closed the socket, the turn
\* consumes no further chunk of the provider stream and starts no tool
\* invocation.
C15_Cancelled ==
    [][\A c \in Conns :
          (InTurn(c) /\ ~client_open[c]) =>
              /\ ~(\E chunk \in Chunks : StreamChunk(c, chunk))
              /\ ~(pc'[c] = "tool" /\ (pc[c] # "tool"
                                          \/ tool_index'[c] # tool_index[c]))]_vars

\* ------------------------------------------------------------ C16
\* A conversation with this identifier is created in this step.
Creates(id) == create_conversation(id) \/ Connect(1, id)

\* What the accessor answers is 404 'Conversation not found' for an
\* identifier that is not in the store, else the stored list.
C16_Answer ==
    \A id \in ConvIds \cup {"C"} :
        LET r == get_conversation_messages(id)
        IN IF id \in DOMAIN conversations
           THEN r.status = 200 /\ r.body = conversations[id]
           ELSE r.status = 404 /\ r.detail = "Conversation not found"

\* C16: the accessor answers 404 'Conversation not found' for an identifier
\* until the step that creates it, POST /api/conversations or a WebSocket
\* connect; from that step on it answers with the stored list, which is
\* empty right after the creation.
C16_NotFoundUntilCreated ==
    /\ []C16_Answer
    /\ [][\A id \in ConvIds :
             LET r == get_conversation_messages(id)
                 r2 == get_conversation_messages(id)'
             IN /\ Creates(id) => r2.status = 200
                /\ (Creates(id) /\ r.status = 404) => r2.body = <<>>
                /\ (r.status = 404 /\ r2.status = 200) => Creates(id)
                /\ r.status = 200 => r2.status = 200]_vars

\* Conversation A came from a connect and holds a turn, B came from POST
\* and is empty, C was never created.
C16_Witness ==
    /\ connects = 1
    /\ conversation_id[1] = "A"
    /\ get_conversation_messages("A").body = <<UserMsg(<<"q">>), AssistantMsg(<<"a">>)>>
    /\ get_conversation_messages("B").status = 200
    /\ get_conversation_messages("B").body = <<>>
    /\ get_conversation_messages("C").status = 404

\* ------------------------------------------------------------ C17
\* C17: every step keeps every conversation of the store and leaves its
\* stored list a prefix of the new one.
C17_AppendOnly ==
    [][\A id \in DOMAIN conversations :
          /\ id \in DOMAIN conversations'
          /\ Len(conversations'[id]) >= Len(conversations[id])
          /\ SubSeq(conversations'[id], 1, Len(conversations[id])) =
                 conversations[id]]_vars

\* A conversation went through a turn, a closed and a reopened connection
\* and a provider error.
C17_Witness ==
    /\ connects = 2
    /\ Ended(1, "error")
    /\ conversations[conversation_id[1]] =
           <<UserMsg(<<"q">>), AssistantMsg(<<"a">>), UserMsg(<<"q">>)>>

\* ------------------------------------------------------------ C18
\* The part of the request history of c's turn that comes from the store is
\* the stored history of c's own conversation up to the turn's user
\* message; the rest was built by the turn itself.
C18_OwnRequest ==
    \A c \in Conns :
        InTurn(c) =>
            /\ Len(current_messages[c]) >= Len(before[c]) + 2
            /\ Len(Stored(c)) >= Len(before[c]) + 1
            /\ SubSeq(current_messages[c], 2, Len(before[c]) + 2) =
                   SubSeq(Stored(c), 1, Len(before[c]) + 1)
            /\ \A i \in (Len(before[c]) + 3)..Len(current_messages[c]) :
                   \/ current_messages[c][i].role = "tool"
                   \/ HasToolCalls(current_messages[c][i])

\* C18: a step of a connection changes the stored history of no
\* conversation but its own, and the request history of a turn holds, from
\* the store, messages of its own conversation only.
C18_Isolated ==
    /\ []C18_OwnRequest
    /\ [][\A c \in Conns :
             (Moved(c) \/ ClientClose(c)) =>
                 \A id \in DOMAIN conversations :
                     id # conversation_id'[c] =>
                         conversations'[id] = conversations[id]]_vars

\* Turns run at the same time on two conversations whose histories differ.
C18_Witness ==
    /\ conversation_id[1] # conversation_id[2]
    /\ InTurn(1) /\ InTurn(2)
    /\ full_response[1] # <<>>
    /\ pending_tool_calls[2] # <<>>
    /\ Stored(1) # <<>> /\ Stored(2) # <<>>

\* ------------------------------------------------------------ C20
\* C20: a 'ping' frame is answered by the one frame 'pong'; the step starts
\* no model request and no tool call, changes no conversation and touches
\* no other connection.
C20_PingPong ==
    [][\A c \in Conns :
          RecvPing(c) =>
              /\ wire'[c] = wire[c] \o <<In([type |-> "ping"]), Out(PongFrame)>>
              /\ conversations' = conversations
              /\ pc'[c] = "recv"
              /\ iteration'[c] = 0
              /\ current_messages'[c] = <<>>
              /\ call'[c] = NoCall
              /\ \A d \in Conns \ {c} : pc'[d] = pc[d] /\ wire'[d] = wire[d]]_vars

\* A ping after a finished turn was answered with pong, the history as the
\* turn left it.
C20_Witness ==
    \E c \in Conns :
        /\ pc[c] = "recv"
        /\ Len(wire[c]) >= 5
        /\ wire[c][Len(wire[c]) - 2] = Out(DoneFrame)
        /\ wire[c][Len(wire[c]) - 1] = In([type |-> "ping"])
        /\ wire[c][Len(wire[c])] = Out(PongFrame)
        /\ Stored(c) = <<UserMsg(<<"q">>), AssistantMsg(<<"a">>)>>

\* ------------------------------------------------------------ C19
IsPrefix(v, w) == Len(v) <= Len(w) /\ SubSeq(w, 1, Len(v)) = v

\* C19: the same message sent to two fresh conversations, the provider and
\* the tool backend answering equal requests equally: at every moment the
\* frames one run has sent are the first frames of the other's, whichever
\* run is ahead and however their steps interleave, and two finished runs
\* have sent the same frames.
C19_SameEvents ==
    /\ IsPrefix(Turn(wire[1]), Turn(wire[2])) \/ IsPrefix(Turn(wire[2]), Turn(wire[1]))
    /\ (wire[1] # <<>> /\ wire[2] # <<>> /\ pc[1] = "recv" /\ pc[2] = "recv") =>
           Turn(wire[1]) = Turn(wire[2])

\* Both runs showed text, a tool call, its result, text and 'done'.
C19_Witness ==
    /\ Ended(1, "done") /\ Ended(2, "done")
    /\ Turn(wire[1]) = Turn(wire[2])
    /\ Len(Turn(wire[1])) = 5
    /\ IsOut(Turn(wire[1]), 2, "tool_use_start")
    /\ IsOut(Turn(wire[1]), 3, "tool_result")
    /\ IsOut(Turn(wire[1]), 4, "text")

\* ------------------------------------------------------------ backend REST
\* backend/app/main.py 97-162: the three repository endpoints.  A handler
\* has one await, the call of the tool backend, and touches no shared state:
\* it is one step from the request to the response.

\* REST requests served in one behaviour that reach the tool backend.
MaxRequests == 2

Repos == {"r1", "r2"}

Paths == {"p1", "p2"}

\* mcp.py 66-109: call_tool returns a value or raises RuntimeError.
Returns(v) == [raises |-> FALSE, value |-> v]

Raises == [raises |-> TRUE, value |-> None]

ApiOutcomes ==
    {Returns(List(<<"x">>)), Returns(List(<<>>)), Returns(Dict(<<"x">>)),
     Returns(None), Raises}

RestCall(name, arguments) == [name |-> name, arguments |-> arguments]

Reply(endpoint, status, detail, body, calls) ==
    [endpoint |-> endpoint, status |-> status, detail |-> detail, body |-> body,
     calls |-> calls]

Unavailable(endpoint) == Reply(endpoint, 503, "MCP Server not available", None, <<>>)

\* main.py 108-112, 130-133
ListAnswer(endpoint, c, outcome) ==
    IF outcome.raises THEN Reply(endpoint, 500, "MCP tool failed", None, <<c>>)
    ELSE Reply(endpoint, 200, "",
               IF outcome.value.py = "list" THEN outcome.value ELSE List(<<>>), <<c>>)

\* main.py 97-112
list_repositories(connected, outcome) ==
    IF ~connected THEN Unavailable("list_repositories")
    ELSE ListAnswer("list_repositories",
                    RestCall("list_repositories", [k \in {} |-> ""]), outcome)

\* main.py 115-133
get_repository_tree(connected, repo_name, outcome) ==
    IF ~connected THEN Unavailable("get_repository_tree")
    ELSE ListAnswer("get_repository_tree",
                    RestCall("list_repo_docs", [repo |-> repo_name]), outcome)

\* Lines 136-162 without the check of lines 148-149.
get_file_content_unchecked(connected, repo_name, path, outcome) ==
    LET c == RestCall("get_documentation", [repo |-> repo_name, path |-> path])
    IN IF outcome.raises THEN Reply("get_file_content", 500, "MCP tool failed", None, <<c>>)
       ELSE IF ~Truthy(outcome.value)
            THEN Reply("get_file_content", 404, "Document not found", None, <<c>>)
       ELSE Reply("get_file_content", 200, "", outcome.value, <<c>>)

\* main.py 136-162
get_file_content(connected, repo_name, path, outcome) ==
    LET c == RestCall("get_documentation", [repo |-> repo_name, path |-> path])
    IN IF ~connected THEN Unavailable("get_file_content")
       ELSE IF outcome.raises
            THEN Reply("get_file_content", 500, "MCP tool failed", None, <<c>>)
       ELSE IF ~Truthy(outcome.value)
            THEN Reply("get_file_content", 404, "Document not found", None, <<c>>)
       ELSE Reply("get_file_content", 200, "", outcome.value, <<c>>)

\* The response goes out; the calls it took have reached the tool backend.
Serve(r) ==
    /\ Len(invoked) + Len(r.calls) <= MaxRequests
    /\ http_response' = r
    /\ invoked' = invoked \o r.calls
    /\ UNCHANGED <<conversations, pc, conversation_id, client_open, wire,
                   full_response, current_messages, iteration, pending_tool_calls,
                   accumulated_text, finish_reason, tool_results, tool_index, call,
                   provided, before, connects, frames, chunks>>
    /\ UNCHANGED <<_client, _connected, mcp_calls, cache, now, session, returned>>

ListRepositories(outcome) == Serve(list_repositories(is_connected, outcome))

GetRepositoryTree(repo_name, outcome) ==
    Serve(get_repository_tree(is_connected, repo_name, outcome))

GetFileContent(repo_name, path, outcome) ==
    Serve(get_file_content(is_connected, repo_name, path, outcome))

\* mcp.py 26-41: connect() at startup succeeded or failed.
InitApi ==
    /\ ChatInit
    /\ _client = "Client" /\ _connected \in BOOLEAN
    /\ session = TRUE /\ RestIdle

NextApi ==
    \/ \E outcome \in ApiOutcomes : ListRepositories(outcome)
    \/ \E repo_name \in Repos, outcome \in ApiOutcomes :
          GetRepositoryTree(repo_name, outcome)
    \/ \E repo_name \in Repos, path \in Paths, outcome \in ApiOutcomes :
          GetFileContent(repo_name, path, outcome)

SpecApi == InitApi /\ [][NextApi]_vars

\* ------------------------------------------------------------ C21
\* C21: while the tool backend is reported as not connected, each of the
\* three repository endpoints answers 503 with a detail that names the MCP
\* server, and no call reaches the tool backend.
MentionsMCP(detail) == detail \in {"MCP Server not available"}

TOOLS == {"list_repositories", "search_documentation", "get_documentation",
          "list_repo_docs"}

\* llm.py 196-207: the request chat_stream is waiting on at "acompletion"
acompletion(s) == [messages |-> s.current_messages, tools |-> TOOLS]

\* A chat turn against a model that asks for a tool, in a backend whose
\* connect() at startup succeeded or failed.
SpecGate == InitApi /\ [][NextCap]_vars

\* C22: no model request carries the tool catalog while the tool backend is
\* reported as not connected.
C22_ToolsGated ==
    \A c \in Conns :
        pc[c] = "acompletion" /\ acompletion(Local(c)).tools # {} => is_connected

\* ------------------------------------------------------------ mcp-bridge cache
\* mcp-bridge/cache.py.  Time is counted in whole ticks of time.time().

\* The last reading of the clock in one behaviour.
MaxTime == 4

\* cache.py 39: self._ttl, the configured ttl_seconds (CACHE_TTL), in ticks
ttl == 2

CacheKeys == {"repos:all", "docs:r1"}

CacheValues == {List(<<"x">>), List(<<"y">>)}

Number(n) == [py |-> "int", items |-> <<n>>]

\* cache.py 13-17
CacheEntry(data, t) == [data |-> data, timestamp |-> t]

Without(c, keys) == [k \in DOMAIN c \ keys |-> c[k]]

\* Lines 41-63 with `>=` for the `>` of line 57.
get_inclusive(c, t, key) ==
    IF key \notin DOMAIN c THEN [cache |-> c, result |-> None]
    ELSE IF t - c[key].timestamp >= ttl
         THEN [cache |-> Without(c, {key}), result |-> None]
    ELSE [cache |-> c, result |-> c[key].data]

\* cache.py 41-63
get(c, t, key) ==
    IF key \notin DOMAIN c THEN [cache |-> c, result |-> None]
    ELSE IF t - c[key].timestamp > ttl
         THEN [cache |-> Without(c, {key}), result |-> None]
    ELSE [cache |-> c, result |-> c[key].data]

\* cache.py 65-74
set(c, t, key, value) ==
    [cache |-> (key :> CacheEntry(value, t)) @@ c, result |-> None]

\* cache.py 76-85
invalidate(c, key) == [cache |-> Without(c, {key}), result |-> None]

\* cache.py 104-108
clear(c) == [cache |-> Without(c, DOMAIN c), result |-> None]

\* cache.py 114-133
cleanup_expired(c, t) ==
    LET expired_keys == {k \in DOMAIN c : t - c[k].timestamp > ttl}
    IN [cache |-> Without(c, expired_keys), result |-> Number(Cardinality(expired_keys))]

CacheFrame ==
    /\ UNCHANGED <<conversations, pc, conversation_id, client_open, wire,
                   full_response, current_messages, iteration, pending_tool_calls,
                   accumulated_text, finish_reason, tool_results, tool_index, call,
                   provided, before, connects, frames, chunks>>
    /\ UNCHANGED <<_client, _connected, mcp_calls, now, session, http_response, invoked>>

Called(op, key, r) ==
    /\ cache' = r.cache
    /\ returned' = [op |-> op, key |-> key, value |-> r.result, at |-> now]
    /\ CacheFrame

CacheGet(key) == Called("get", key, get(cache, now, key))

CacheSet(key, value) == Called("set", key, set(cache, now, key, value))

CacheInvalidate(key) == Called("invalidate", key, invalidate(cache, key))

CacheClear == Called("clear", "", clear(cache))

CacheCleanup == Called("cleanup_expired", "", cleanup_expired(cache, now))

\* time.time() advances.
Tick ==
    /\ now < MaxTime
    /\ now' = now + 1
    /\ UNCHANGED <<conversations, pc, conversation_id, client_open, wire,
                   full_response, current_messages, iteration, pending_tool_calls,
                   accumulated_text, finish_reason, tool_results, tool_index, call,
                   provided, before, connects, frames, chunks>>
    /\ UNCHANGED <<_client, _connected, mcp_calls, cache, session, returned, http_response, invoked>>

NextCache ==
    \/ \E key \in CacheKeys : CacheGet(key)
    \/ \E key \in CacheKeys, value \in CacheValues : CacheSet(key, value)
    \/ \E key \in CacheKeys : CacheInvalidate(key)
    \/ CacheClear
    \/ CacheCleanup
    \/ Tick

SpecCache == Init /\ [][NextCache]_vars

\* ------------------------------------------------------------ C23
Age(key) == now - cache[key].timestamp

Live(key) == key \in DOMAIN cache /\ Age(key) <= ttl

\* An entry is what the most recent set of its key stored, at the time of
\* that set: only set writes an entry, every other method at most removes.
MostRecentSet ==
    \A key \in DOMAIN cache' :
        \/ key \in DOMAIN cache /\ cache'[key] = cache[key]
        \/ \E value \in CacheValues :
              CacheSet(key, value) /\ cache'[key] = CacheEntry(value, now)

GetStep ==
    \A key \in CacheKeys :
        CacheGet(key) =>
            /\ returned'.value = IF Live(key) THEN cache[key].data ELSE None
            /\ Live(key) => cache' = cache
            /\ ~Live(key) => cache' = Without(cache, {key})

\* C23: get(k) returns the value of the most recent set(k, v) exactly when an
\* entry for k exists and its age is at most the TTL, an entry of age TTL
\* included; otherwise it returns None, and it removes the expired entry it
\* found.  This holds after any sequence of set, get, invalidate, clear and
\* cleanup_expired.
C23_Expiry ==
    /\ [](\A key \in DOMAIN cache : cache[key].timestamp <= now)
    /\ [][MostRecentSet /\ GetStep]_vars

\* get has just served an entry whose age was exactly the TTL.
C23_Witness ==
    /\ returned.op = "get" /\ returned.key = "repos:all"
    /\ "repos:all" \in DOMAIN cache
    /\ returned.value = cache["repos:all"].data
    /\ returned.at - cache["repos:all"].timestamp = ttl

\* ------------------------------------------------------------ mcp-bridge REST
\* mcp-bridge/main.py 156-245 with CACHE_ENABLED: get_repositories and
\* get_repo_docs.  A handler is taken as one step: its only await is the
\* call of the MCP backend, between cache.get and cache.set.

\* mcp_client.py 107-141: the parsed answer (a list, possibly empty), None
\* for an answer without content, or the exception of the call.
BridgeOutcomes == {Returns(List(<<"x">>)), Returns(List(<<>>)), Returns(None), Raises}

\* Lines 164-198, 211-245 with `if cached is not None:` at 168 and 215.
CachedNotNone(endpoint, cache_key, backend_call, c, t, has_session, outcome) ==
    LET looked == get(c, t, cache_key)
        cached == looked.result
        miss == [op |-> "get", key |-> cache_key, value |-> cached, at |-> t]
        stored == set(looked.cache, t, cache_key, outcome.value)
    IN IF cached # None
       THEN [cache |-> looked.cache, returned |-> miss,
             response |-> Reply(endpoint, 200, "", cached, <<>>)]
       ELSE IF ~has_session
            THEN [cache |-> looked.cache, returned |-> miss,
                  response |-> Reply(endpoint, 503, "MCP Server not connected", None, <<>>)]
       ELSE IF outcome.raises
            THEN [cache |-> looked.cache, returned |-> miss,
                  response |-> Reply(endpoint, 500, "Failed to fetch", None,
                                     <<backend_call>>)]
       ELSE [cache |-> stored.cache,
             returned |-> [op |-> "set", key |-> cache_key, value |-> None, at |-> t],
             response |-> IF outcome.value = None
                          THEN Reply(endpoint, 500, "Failed to fetch", None,
                                     <<backend_call>>)
                          ELSE Reply(endpoint, 200, "", outcome.value, <<backend_call>>)]

\* main.py 164-198, 211-245
Cached(endpoint, cache_key, backend_call, c, t, has_session, outcome) ==
    LET looked == get(c, t, cache_key)
        cached == looked.result
        miss == [op |-> "get", key |-> cache_key, value |-> cached, at |-> t]
        stored == set(looked.cache, t, cache_key, outcome.value)
    IN IF Truthy(cached)
       THEN [cache |-> looked.cache, returned |-> miss,
             response |-> Reply(endpoint, 200, "", cached, <<>>)]
       ELSE IF ~has_session
            THEN [cache |-> looked.cache, returned |-> miss,
                  response |-> Reply(endpoint, 503, "MCP Server not connected", None, <<>>)]
       ELSE IF outcome.raises
            THEN [cache |-> looked.cache, returned |-> miss,
                  response |-> Reply(endpoint, 500, "Failed to fetch", None,
                                     <<backend_call>>)]
       ELSE [cache |-> stored.cache,
             returned |-> [op |-> "set", key |-> cache_key, value |-> None, at |-> t],
             \* len(None) raises TypeError after the value was stored
             response |-> IF outcome.value = None
                          THEN Reply(endpoint, 500, "Failed to fetch", None,
                                     <<backend_call>>)
                          ELSE Reply(endpoint, 200, "", outcome.value, <<backend_call>>)]

\* main.py 156-198
get_repositories(c, t, has_session, outcome) ==
    Cached("get_repositories", "repos:all",
           RestCall("get_org_repos", [org |-> GITHUB_ORG]), c, t, has_session, outcome)

\* main.py 201-245, for the repository r1
get_repo_docs(c, t, has_session, outcome) ==
    Cached("get_repo_docs", "docs:r1",
           RestCall("get_repo_docs", [org |-> GITHUB_ORG, repo |-> "r1"]),
           c, t, has_session, outcome)

Answered(r) ==
    /\ Len(invoked) + Len(r.response.calls) <= MaxRequests
    /\ cache' = r.cache
    /\ returned' = r.returned
    /\ http_response' = r.response
    /\ invoked' = invoked \o r.response.calls
    /\ UNCHANGED <<conversations, pc, conversation_id, client_open, wire,
                   full_response, current_messages, iteration, pending_tool_calls,
                   accumulated_text, finish_reason, tool_results, tool_index, call,
                   provided, before, connects, frames, chunks>>
    /\ UNCHANGED <<_client, _connected, mcp_calls, now, session>>

GetRepositories(outcome) == Answered(get_repositories(cache, now, session, outcome))

GetRepoDocs(outcome) == Answered(get_repo_docs(cache, now, session, outcome))

\* main.py 87-96: the bridge starts whether or not its MCP session came up.
InitBridge ==
    /\ ChatInit
    /\ _client = "Client" /\ _connected = TRUE
    /\ session \in BOOLEAN /\ RestIdle

\* The two cached endpoints, the cache management endpoints (main.py
\* 414-433) and the clock.
NextBridge ==
    \/ \E outcome \in BridgeOutcomes : GetRepositories(outcome)
    \/ \E outcome \in BridgeOutcomes : GetRepoDocs(outcome)
    \/ \E key \in CacheKeys : CacheInvalidate(key)
    \/ CacheClear
    \/ Tick

SpecBridge == InitBridge /\ [][NextBridge]_vars

\* ------------------------------------------------------------ C24
\* A cached value: an entry that has not expired and holds a list.
HasCached(key) == Live(key) /\ cache[key].data.py = "list"

CachedStep(key, outcome) ==
    /\ HasCached(key) =>
          /\ http_response'.body = cache[key].data
          /\ http_response'.calls = <<>>
    /\ ~HasCached(key) /\ session =>
          /\ Len(http_response'.calls) = 1
          /\ ~outcome.raises => cache'[key] = CacheEntry(outcome.value, now)
    /\ ~HasCached(key) /\ (outcome.raises \/ ~session) =>
          cache' \in {cache, Without(cache, {key})}

\* C24: a request for repositories or repository docs that finds a cached
\* value returns it without calling the MCP backend; a request that misses
\* calls the backend once and stores the result under "repos:all" or
\* "docs:<repo>"; a backend failure stores nothing.
C24_Caching ==
    [][\A outcome \in BridgeOutcomes :
          /\ GetRepositories(outcome) => CachedStep("repos:all", outcome)
          /\ GetRepoDocs(outcome) => CachedStep("docs:r1", outcome)]_vars

\* ------------------------------------------------------------ C25
IsToolMsg(m) == m.role = "tool"

CallIds(m) ==
    IF HasToolCalls(m) THEN {m.tool_calls[k].id : k \in 1..Len(m.tool_calls)} ELSE {}

\* Every tool message of h answers a tool call of an earlier assistant
\* message of h, and every tool call of h is answered later in h.
Matched(h) ==
    /\ \A i \in 1..Len(h) :
          IsToolMsg(h[i]) =>
              \E j \in 1..(i - 1) :
                  h[j].role = "assistant" /\ h[i].tool_call_id \in CallIds(h[j])
    /\ \A j \in 1..Len(h) :
          \A id \in CallIds(h[j]) :
              \E i \in (j + 1)..Len(h) : IsToolMsg(h[i]) /\ h[i].tool_call_id = id

\* C25: in the stored conversations and in the request history of every
\* running turn, each tool message's tool_call_id is the identifier of a
\* tool call of a preceding assistant message of the same history, in every
\* reachable state: no unmatched tool call or tool result is left by a
\* provider error or a disconnect.
C25_Matched ==
    /\ \A id \in DOMAIN conversations : Matched(conversations[id])
    /\ \A c \in Conns : Matched(current_messages[c])

\* The second request of a turn carries the results of a batch of two tool
\* calls.
C25_Witness ==
    /\ pc[1] = "acompletion"
    /\ Cardinality({i \in 1..Len(current_messages[1]) :
                        IsToolMsg(current_messages[1][i])}) = 2

\* ------------------------------------------------------------ C26
\* The backend invocation of pending tool call i of connection c.
Invocation(c, i) ==
    LET tc == pending_tool_calls[c][i]
        m == map_tool_call(tc.name, ParseArguments(tc.arguments))
    IN [name |-> m.name, arguments |-> m.arguments]

\* While a call is in flight it is the call of the pending request at
\* tool_index, the requests before it have their results and the ones after
\* it were not invoked; no request is pending when the model is asked again
\* or when no turn runs.
C26_InFlight ==
    \A c \in Conns :
        /\ pc[c] = "tool" =>
              /\ tool_index[c] \in 1..Len(pending_tool_calls[c])
              /\ call[c] = Invocation(c, tool_index[c])
              /\ Len(tool_results[c]) = tool_index[c] - 1
        /\ pc[c] # "tool" => call[c] = NoCall
        /\ pc[c] \in {"acompletion", "recv", "closed"} => pending_tool_calls[c] = <<>>

\* A backend invocation starts in this step.
Invokes(c) == pc'[c] = "tool" /\ (pc[c] # "tool" \/ tool_index'[c] # tool_index[c])

\* The requests of a batch are invoked one after the other, beginning with
\* the first, and the batch does not change meanwhile.
C26_InOrder ==
    \A c \in Conns :
        Invokes(c) =>
            /\ pending_tool_calls'[c] = pending_tool_calls[c]
            /\ tool_index'[c] = IF pc[c] = "tool" THEN tool_index[c] + 1 ELSE 1

\* C26 as stated: each tool-call request accumulated from a stream leads to
\* at most one backend invocation, to exactly one when the stream ended
\* without failure (the calls of a batch stop only after the last request),
\* and to none in a later iteration.
C26_AsStated ==
    /\ []C26_InFlight
    /\ [][/\ C26_InOrder
          /\ \A c \in Conns :
                pc[c] = "tool" /\ pc'[c] # "tool" =>
                    tool_index[c] = Len(pending_tool_calls[c])]_vars

\* C26 as amended: each tool-call request accumulated from a stream leads to
\* at most one backend invocation and to none in a later iteration; the
\* requests of a batch are invoked in order, and each of them was invoked
\* exactly once when the turn asks the model again.  A turn that ends during
\* the batch leaves the remaining requests uninvoked.
C26_AtMostOnce ==
    /\ []C26_InFlight
    /\ [][/\ C26_InOrder
          /\ \A c \in Conns :
                pc[c] = "tool" /\ pc'[c] = "acompletion" =>
                    tool_index[c] = Len(pending_tool_calls[c])]_vars

\* The second request of a batch is in flight, the first has its result.
C26_Witness ==
    \E c \in Conns :
        pc[c] = "tool" /\ tool_index[c] = 2 /\ Len(tool_results[c]) = 1

\* ------------------------------------------------------------ C27
\* The turn of connection c goes on after this step: a tool of the batch is
\* invoked, or the model is asked again.
GoesOn(c) == pc'[c] \in {"tool", "acompletion"}

\* C27: when a provider stream that reported a stop reason ends, the loop
\* goes on to the tools and the next model request exactly when the reason
\* is tool-requested, and finalizes the turn (assistant message appended,
\* 'done' sent) when it is natural completion or the length limit, whether
\* or not the stream accumulated tool calls.
C27_ByStopReason ==
    [][\A c \in Conns :
          StreamEnd(c) /\ finish_reason[c] # "None" =>
              /\ GoesOn(c) <=> finish_reason[c] = "tool_calls"
              /\ finish_reason[c] \in {"stop", "length"} /\ client_open[c] =>
                    /\ wire'[c] = Append(wire[c], Out(DoneFrame))
                    /\ Stored(c)' = AppendAssistant(Stored(c), full_response[c])]_vars

\* ------------------------------------------------------------ C28
\* The toolId of the tool_result frames of a transcript, in order.
RECURSIVE ToolResultIds(_)
ToolResultIds(w) ==
    IF w = <<>> THEN <<>>
    ELSE (IF Head(w).dir = "out" /\ Head(w).frame.type = "tool_result"
          THEN <<Head(w).frame.toolId>> ELSE <<>>) \o ToolResultIds(Tail(w))

\* The last n elements of a sequence.
LastN(q, n) == SubSeq(q, Len(q) - n + 1, Len(q))

\* The model is asked again in this step, after a batch of tool calls.
ReEnters(c) == pc[c] = "tool" /\ pc'[c] = "acompletion"

BatchDone(c) ==
    LET batch == pending_tool_calls[c]
        n == Len(batch)
        ids == [i \in 1..n |-> batch[i].id]
        h == current_messages'[c]
        sent == ToolResultIds(Turn(wire'[c]))
    IN /\ tool_index[c] = n
       /\ Len(tool_results[c]) = n - 1
       /\ Len(sent) >= n /\ LastN(sent, n) = ids
       /\ Len(h) >= n
       /\ \A i \in 1..n : IsToolMsg(h[Len(h) - n + i])
       /\ [i \in 1..n |-> h[Len(h) - n + i].tool_call_id] = ids

\* C28: the model is never asked again while a tool call of the batch is
\* outstanding: the next request of a turn is issued only when every tool
\* call accumulated in the previous stream has completed, its tool_result
\* was sent, and its result is in the history of that request.
C28_AfterBatch ==
    /\ [](\A c \in Conns : pc[c] \in {"acompletion", "stream"} => call[c] = NoCall)
    /\ [][\A c \in Conns : ReEnters(c) => BatchDone(c)]_vars

\* The model is asked the second time, after a batch of two tool calls.
C28_Witness ==
    \E c \in Conns :
        /\ pc[c] = "acompletion" /\ iteration[c] = 2
        /\ Len(ToolResultIds(Turn(wire[c]))) = 2

\* ------------------------------------------------------------ C29
\* The text frames among the frames of a transcript, in order.
RECURSIVE TextsOf(_)
TextsOf(w) ==
    IF w = <<>> THEN <<>>
    ELSE (IF Head(w).frame.type = "text" THEN <<Head(w)>> ELSE <<>>) \o TextsOf(Tail(w))

\* The provider stream of connection c delivers a chunk in this step.
ChunkStep(c) == pc[c] = "stream" /\ chunks' = chunks + 1

TextAtOnce(c) ==
    LET sent == SentIn(wire[c], wire'[c])
    IN IF provided'[c] # provided[c]
       THEN LET fragment == provided'[c][Len(provided'[c])].text
            IN /\ TextsOf(sent) = <<Out(TextEvent(fragment))>>
               /\ sent[1] = Out(TextEvent(fragment))
       ELSE TextsOf(sent) = <<>>

\* C29: each non-empty text fragment of the provider stream gives exactly
\* one text event with that fragment unchanged, sent to the client in the
\* step that consumes its chunk, before the next chunk is read; a chunk
\* without text gives no text event.
C29_TextAtOnce ==
    [][ChunkStep(1) /\ client_open[1] => TextAtOnce(1)]_vars

\* A text fragment was sent while the tool call opened before it is still
\* being streamed.
C29_Witness ==
    /\ pc[1] = "stream"
    /\ pending_tool_calls[1] # <<>>
    /\ Len(wire[1]) >= 2
    /\ wire[1][Len(wire[1]) - 1] = Out(ToolUseStart("t1", "list_repositories"))
    /\ wire[1][Len(wire[1])] = Out(TextEvent(<<"a">>))

\* ------------------------------------------------------------ argument fragments without an id
\* In the OpenAI streaming format that litellm delivers, only the first
\* delta of a tool call carries its id and name; the deltas that continue
\* its arguments have id None and name None and are tied to the call by
\* their index.  llm.py 229 reads tool_call.id of every delta.
Fragment(arguments) == Delta("None", "None", arguments)

OpeningChunk == Chunk(<<>>, <<OpenT1>>, "None")

FragmentChunks ==
    { Chunk(<<>>, <<Fragment(<<"{">>)>>, "None"),
      Chunk(<<>>, <<Fragment(<<"}">>)>>, "tool_calls"),
      Chunk(<<>>, <<Fragment(<<"{", "}">>)>>, "tool_calls") }

\* One connection and a provider that streams one tool call: the opening
\* delta, then fragments of its arguments, text at any time.
NextFrag ==
    \/ Connect(1, "A")
    \/ ClientClose(1)
    \/ RecvDisconnect(1)
    \/ wire[1] = <<>> /\ RecvMessage(1, <<"q", " ">>)
    \/ AcompletionOk(1)
    \/ chunks < MaxChunks + 1 /\ pending_tool_calls[1] = <<>> /\ StreamChunk(1, OpeningChunk)
    \/ \E chunk \in FragmentChunks :
          chunks < MaxChunks + 1 /\ pending_tool_calls[1] # <<>> /\ StreamChunk(1, chunk)
    \/ chunks < MaxChunks + 1 /\ StreamChunk(1, Chunk(<<"a">>, <<>>, "None"))
    \/ StreamEnd(1)
    \/ \E outcome \in ToolOutcomes : ToolReturn(1, outcome)

SpecFrag == Init /\ [][NextFrag]_vars

\* ------------------------------------------------------------ C30
\* The tool calls a chunk opens: its deltas that carry an id.
Opens(chunk) ==
    Cardinality({i \in 1..Len(chunk.tool_calls) : chunk.tool_calls[i].id # "None"})

OneStart(chunk) ==
    LET sent == SentIn(wire[1], wire'[1])
    IN /\ Count(sent, "tool_use_start") = Opens(chunk)
       /\ Len(pending_tool_calls'[1]) = Len(pending_tool_calls[1]) + Opens(chunk)

\* C30: the chunk that opens a tool call causes exactly one tool_use_start
\* for it, sent at once; every later fragment of its arguments only extends
\* the argument buffer and causes no event, so a stream has as many
\* tool_use_start events as tool calls.
C30_OneStart ==
    [][\A chunk \in {OpeningChunk} \cup FragmentChunks :
          StreamChunk(1, chunk) /\ client_open[1] => OneStart(chunk)]_vars

\* ------------------------------------------------------------ interleaved tool calls
\* One connection and a provider that streams two tool calls at once: both
\* are opened, then fragments of their arguments arrive in any order, each
\* with the id of its call, one or two to a chunk; a fragment without id
\* may arrive as well.
InterleavedChunks ==
    { Chunk(<<>>, <<OpenT1, OpenT2>>, "None"),
      Chunk(<<>>, <<Delta("t1", "list_repositories", <<"{">>)>>, "None"),
      Chunk(<<>>, <<Delta("t1", "list_repositories", <<"}">>)>>, "tool_calls"),
      Chunk(<<>>, <<FragT2>>, "None"),
      Chunk(<<>>, <<FragT2, Delta("t1", "list_repositories", <<"{", "}">>)>>, "tool_calls"),
      Chunk(<<>>, <<Fragment(<<"{">>)>>, "None") }

\* The chunks one stream may deliver.
MaxInterleaved == 4

NextInterleaved ==
    \/ Connect(1, "A")
    \/ wire[1] = <<>> /\ RecvMessage(1, <<"q", " ">>)
    \/ AcompletionOk(1)
    \/ \E chunk \in InterleavedChunks :
          chunks < MaxInterleaved /\ iteration[1] = 1 /\ StreamChunk(1, chunk)
    \/ StreamEnd(1)
    \/ \E outcome \in ToolOutcomes : ToolReturn(1, outcome)

SpecInterleaved == Init /\ [][NextInterleaved]_vars

\* ------------------------------------------------------------ C31
\* The argument buffer of the tool call with this id, empty if none.
Buffer(pending, id) ==
    IF Existing(pending, id) = 0 THEN <<>> ELSE pending[Existing(pending, id)].arguments

\* The argument text of the deltas addressed to id, in order of arrival.
RECURSIVE Addressed(_, _)
Addressed(deltas, id) ==
    IF deltas = <<>> THEN <<>>
    ELSE (IF Head(deltas).id = id THEN Head(deltas).arguments ELSE <<>>)
         \o Addressed(Tail(deltas), id)

DeltaIds == {"t1", "t2", "None"}

\* A chunk extends the buffer of each call by exactly the fragments that
\* carry its id, in their order, and leaves the other buffers alone; there
\* is one pending call per id.
OwnBuffer(chunk) ==
    /\ \A id \in DeltaIds :
          Buffer(pending_tool_calls'[1], id) =
              Buffer(pending_tool_calls[1], id) \o Addressed(chunk.tool_calls, id)
    /\ \A i, j \in 1..Len(pending_tool_calls'[1]) :
          pending_tool_calls'[1][i].id = pending_tool_calls'[1][j].id => i = j

ToolNames == TOOLS \cup {"other_tool"}

ArgumentTexts ==
    {<<>>, <<"{", "q", "}">>, <<"{", "o", "}">>, <<"{", "g", "}">>, <<"{">>}

ToolChunks ==
    {Chunk(<<>>, <<Delta("t1", name, arguments)>>, "tool_calls") :
        name \in ToolNames, arguments \in ArgumentTexts}

NextTools ==
    \/ Connect(1, "A")
    \/ wire[1] = <<>> /\ RecvMessage(1, <<"q", " ">>)
    \/ AcompletionOk(1)
    \/ \E chunk \in ToolChunks :
          iteration[1] = 1 /\ pending_tool_calls[1] = <<>> /\ StreamChunk(1, chunk)
    \/ StreamEnd(1)
    \/ \E outcome \in ToolOutcomes : ToolReturn(1, outcome)

SpecTools == Init /\ [][NextTools]_vars

\* ------------------------------------------------------------ C32
\* The tool call that is being invoked on connection 1, and the arguments
\* the model supplied for it.
InvokedCall == pending_tool_calls[1][tool_index[1]]

Supplied == ParseArguments(InvokedCall.arguments).value

\* The static table.
BackendName(name) ==
    CASE name = "list_repositories" -> "get_org_repos_tool"
      [] name = "search_documentation" -> "search_documentation_tool"
      [] name = "get_documentation" -> "get_file_content_tool"
      [] name = "list_repo_docs" -> "get_repo_docs_tool"
      [] OTHER -> name

\* C32: map_tool_call translates each of the four model-facing tool names
\* to its backend name by the static table, passes any other name through
\* unchanged, and returns arguments that contain every argument the model
\* supplied plus the organization parameter 'org'.
C32_Mapped ==
    pc[1] = "tool" =>
        /\ call[1].name = BackendName(InvokedCall.name)
        /\ InvokedCall.name \notin TOOLS => call[1].name = InvokedCall.name
        /\ DOMAIN call[1].arguments = DOMAIN Supplied \cup {"org"}
        /\ \A k \in DOMAIN Supplied : call[1].arguments[k] = Supplied[k]

\* get_documentation with a query is being invoked as get_file_content_tool
\* with the query and the organization.
C32_Witness ==
    /\ pc[1] = "tool"
    /\ InvokedCall.name = "get_documentation"
    /\ call[1] = [name |-> "get_file_content_tool",
                  arguments |-> [org |-> GITHUB_ORG, query |-> "x"]]

\* ------------------------------------------------------------ C33
\* Connection c takes a 'message' frame in this step and starts its turn.
TakesMessage(c) ==
    /\ pc[c] = "recv" /\ InTurn(c)'
    /\ Len(wire'[c]) > Len(wire[c])
    /\ IsIn(wire'[c], Len(wire[c]) + 1, "message")

\* The turn of connection c ends in this step, its stream completed.
Completes(c) == InTurn(c) /\ ~InTurn(c)' /\ pc[c] \in {"stream", "tool"}

\* The stored list h became h2 by the append of one message m.
Appended(h, h2) == Len(h2) = Len(h) + 1 /\ SubSeq(h2, 1, Len(h)) = h

StoreWriter(id) ==
    LET h == conversations[id]
        h2 == conversations'[id]
        m == h2[Len(h2)]
    IN \/ h2 = h
       \/ /\ Appended(h, h2)
          /\ \E c \in Conns :
                /\ conversation_id[c] = id
                /\ \/ TakesMessage(c) /\ m = UserMsg(Strip(wire'[c][Len(wire[c]) + 1].frame.content))
                   \/ Completes(c) /\ full_response[c] # <<>>
                         /\ m = AssistantMsg(full_response[c])

\* C33: chat_stream never changes the list it is given: tool-call and
\* tool-result messages go to its local request history only.  The stored
\* conversation changes only by websocket_chat appending the user message
\* when the turn starts or the assistant text message when the stream has
\* completed; no step of a running turn before its end changes the store,
\* and every stored message has role 'user' or 'assistant'.
C33_StoreWriters ==
    /\ [](\A id \in DOMAIN conversations : \A i \in 1..Len(conversations[id]) :
             conversations[id][i].role \in {"user", "assistant"})
    /\ [][/\ \A id \in DOMAIN conversations : StoreWriter(id)
          /\ \A c \in Conns :
                InTurn(c) /\ InTurn(c)' /\ Moved(c) => conversations' = conversations]_vars

\* The second request of a turn holds a tool result while the store holds
\* nothing of the turn but its user message.
C33_Witness ==
    \E c \in Conns :
        /\ pc[c] = "acompletion" /\ iteration[c] = 2
        /\ \E i \in 1..Len(current_messages[c]) : IsToolMsg(current_messages[c][i])
        /\ Stored(c) = Append(before[c], UserMsg(<<"q">>))

\* ------------------------------------------------------------ C34
\* The frames of the last turn of connection c hold no text event.
Textless(c) == Count(Turn(wire[c]), "text") = 0

\* The store holds the history of before the last turn of connection c and
\* the user message of that turn: nobody has written to it since.
Untouched(c) == Stored(c) = Append(before[c], TurnUserMsg(c))

\* The turn of connection c completes in this step: 'done' is sent.
SendsDone(c) == InTurn(c) /\ wire'[c] = Append(wire[c], Out(DoneFrame))

\* The last two messages of history h are user messages.
TwoUsers(h) ==
    /\ Len(h) >= 2
    /\ h[Len(h) - 1].role = "user" /\ h[Len(h)].role = "user"

\* C34: a turn that completes without any text event sends 'done' and
\* appends no assistant message: the stored history then ends with the
\* user message of the turn, and the next message on the connection puts a
\* second user message right after it, in the store and in the request
\* sent to the model.
C34_Unanswered ==
    [][\A c \in Conns :
          /\ (SendsDone(c) /\ Textless(c)) =>
                 /\ conversations' = conversations
                 /\ Len(Stored(c)) = Len(before[c]) + 1 =>
                        /\ Untouched(c)'
                        /\ Stored(c)'[Len(Stored(c)')].role = "user"
          /\ (TakesMessage(c) /\ Textless(c)
                 /\ Count(Turn(wire[c]), "done") = 1 /\ Untouched(c)) =>
                 /\ TwoUsers(Stored(c)')
                 /\ TwoUsers(current_messages'[c])]_vars

\* The second turn of a connection runs on a history of two user messages
\* in a row, the first turn having ended with 'done' and no text.
C34_Witness ==
    \E c \in Conns :
        /\ pc[c] = "acompletion"
        /\ Count(wire[c], "done") = 1
        /\ Count(wire[c], "text") = 0
        /\ Len(Stored(c)) = 2
        /\ TwoUsers(Stored(c))
        /\ TwoUsers(current_messages[c])

\* ------------------------------------------------------------ C35
\* The toolIds of the tool_use_start frames of a transcript, in order.
RECURSIVE StartIds(_)
StartIds(w) ==
    IF w = <<>> THEN <<>>
    ELSE (IF Head(w).dir = "out" /\ Head(w).frame.type = "tool_use_start"
          THEN <<Head(w).frame.toolId>> ELSE <<>>) \o StartIds(Tail(w))

\* Some frame among sent is of one of the types.
Sends(sent, types) == \E i \in 1..Len(sent) : sent[i].frame.type \in types

\* While the batch of an iteration runs, the frames of the turn end with the
\* tool_result frames of the calls already made, in the order of the batch,
\* and the frames before them end with the tool_use_start frames of the
\* batch in that same order.
BatchOrder(c) ==
    LET t == Turn(wire[c])
        made == tool_index[c] - 1
        n == Len(pending_tool_calls[c])
        ids == [j \in 1..n |-> pending_tool_calls[c][j].id]
    IN /\ Len(t) >= n + made
       /\ ToolResultIds(LastN(t, made)) = SubSeq(ids, 1, made)
       /\ LastN(StartIds(SubSeq(t, 1, Len(t) - made)), n) = ids

\* What a step of connection c sends: text and tool_use_start only while
\* the provider stream is read, a tool_result only when a tool has returned,
\* the stream exhausted; the stream of an iteration is not read again once
\* its tools run.
EventPhase(c) ==
    LET sent == SentIn(wire[c], wire'[c])
    IN /\ Sends(sent, {"text", "tool_use_start"}) =>
             pc[c] = "stream" /\ ~Sends(sent, {"tool_result"})
       /\ Sends(sent, {"tool_result"}) =>
             /\ pc[c] = "tool"
             /\ sent[1].frame.toolId = pending_tool_calls[c][tool_index[c]].id
       /\ pc[c] = "tool" =>
             /\ pc'[c] # "stream"
             /\ pc'[c] = "tool" => iteration'[c] = iteration[c]

\* C35: within one model iteration the tools run only after the provider
\* stream has ended, one after another in the order in which the tool calls
\* first appeared: every tool_use_start and text event of the iteration
\* precedes all of its tool_result events, and the tool_result events come
\* in the order of their tool_use_start events.
C35_StartsThenResults ==
    /\ [](\A c \in Conns : pc[c] = "tool" => BatchOrder(c))
    /\ [][\A c \in Conns : EventPhase(c)]_vars

\* A batch of two different tool calls has run: two tool_use_start frames,
\* then their two tool_result frames in the same order.
C35_Witness ==
    \E c \in Conns :
        LET t == Turn(wire[c])
        IN /\ pc[c] = "acompletion" /\ iteration[c] = 2
           /\ Len(t) = 4
           /\ StartIds(SubSeq(t, 1, 2)) = ToolResultIds(SubSeq(t, 3, 4))
           /\ Len(StartIds(t)) = 2
           /\ StartIds(t)[1] # StartIds(t)[2]

\* ------------------------------------------------------------ C36
\* The tool batches run so far in the turn: one tool_result each, the
\* responses carrying one tool call.
Batches(c) == Count(Turn(wire[c]), "tool_result")

\* The model is requested in this step.
Requests(c) == pc[c] # "acompletion" /\ pc'[c] = "acompletion"

\* The stream of the last permitted response ends with a tool call: the
\* tool is invoked all the same.
LastBatchRuns(c) ==
    (pc[c] = "stream" /\ pc'[c] # "stream" /\ iteration[c] = max_iterations) =>
        /\ pc'[c] = "tool"
        /\ call'[c] = Invocation(c, 1)

\* The tool of the last permitted response returns: its tool_result is
\* sent, 'done' right after it, and the model is not asked again.
LastBatchUnreported(c) ==
    (pc[c] = "tool" /\ pc'[c] # "tool" /\ iteration[c] = max_iterations) =>
        LET w == wire'[c]
        IN /\ Len(w) = Len(wire[c]) + 2
           /\ IsOut(w, Len(w) - 1, "tool_result")
           /\ w[Len(w) - 1].frame.toolId = pending_tool_calls[c][tool_index[c]].id
           /\ w[Len(w)] = Out(DoneFrame)
           /\ pc'[c] = "recv"
           /\ Batches(c)' = max_iterations

\* C36: for one user message the model is requested at most 10 times and at
\* most 10 tool batches run.  When the 10th response again holds a tool
\* call, the tool is still invoked and its tool_result sent, but the result
\* goes to no model request: the turn ends there, the tool_result being the
\* last event before 'done'.
C36_LastBatch ==
    /\ [](iteration[1] <= max_iterations /\ Batches(1) <= max_iterations)
    /\ [][/\ Requests(1) => /\ iteration'[1] = iteration[1] + 1
                            /\ iteration'[1] <= max_iterations
                            /\ Batches(1)' = iteration[1]
          /\ LastBatchRuns(1)
          /\ LastBatchUnreported(1)]_vars

\* The tool call of the 10th response is in flight.
C36_Witness ==
    /\ pc[1] = "tool"
    /\ iteration[1] = max_iterations
    /\ Batches(1) = max_iterations - 1
    /\ call[1] # NoCall

\* ------------------------------------------------------------ C37
\* The model's arguments for the call being invoked hold an 'org' key.
SuppliesOrg == "org" \in DOMAIN Supplied

\* C37 as amended: in the arguments sent to the tool backend a
\* model-supplied 'org' takes precedence over the configured organization:
\* 'org' is the model's value when the model's arguments hold an 'org' key,
\* and the configured organization when they hold none.
C37_ModelOrgWins ==
    pc[1] = "tool" =>
        call[1].arguments.org = IF SuppliesOrg THEN Supplied.org ELSE GITHUB_ORG

\* C37 as stated: 'org' equals the configured organization exactly when the
\* model's arguments hold no 'org' key.
C37_AsStated ==
    pc[1] = "tool" =>
        (call[1].arguments.org = GITHUB_ORG <=> ~SuppliesOrg)

\* A call is invoked with the organization the model asked for, which is
\* not the configured one.
C37_Witness ==
    /\ pc[1] = "tool"
    /\ SuppliesOrg
    /\ Supplied.org # GITHUB_ORG
    /\ call[1].arguments.org = Supplied.org

\* ------------------------------------------------------------ backend MCPClient
\* backend/app/mcp.py.  An MCPClient is its two fields; a method is the
\* object after the call and what the call raised.  What the FastMCP client
\* does is an outcome: of connect(), "ok", "listing_fails" (the session or
\* list_tools raises) or "client_fails" (Client(url) raises); of call_tool,
\* one of ToolOutcomes.
MaxCalls == 4

ConnectOutcomes == {"ok", "listing_fails", "client_fails"}

MCPClient(client, connected) == [client |-> client, connected |-> connected]

\* mcp.py 21-24: __init__
NewMCPClient == MCPClient("None", FALSE)

\* Lines 26-45 without the reset of line 44.
connect_no_reset(m, outcome) ==
    IF outcome = "client_fails" THEN m
    ELSE IF outcome = "listing_fails" THEN MCPClient("Client", m.connected)
    ELSE MCPClient("Client", TRUE)

\* mcp.py 26-45: connect() never raises
connect(m, outcome) ==
    IF outcome = "client_fails" THEN MCPClient(m.client, FALSE)
    ELSE IF outcome = "listing_fails" THEN MCPClient("Client", FALSE)
    ELSE MCPClient("Client", TRUE)

\* mcp.py 47-51
disconnect(m) == MCPClient("None", FALSE)

\* mcp.py 57-109: what call_tool raises, "None" when it returns.  Without a
\* client _get_client raises RuntimeError at 60-61, and the handler at
\* 107-109 raises RuntimeError for every exception.
call_tool(m, outcome) ==
    IF m.client = "None" THEN "RuntimeError"
    ELSE IF outcome = "raise" THEN "RuntimeError"
    ELSE "None"

McpCall(op, outcome, raised) == [op |-> op, outcome |-> outcome, raised |-> raised]

\* One call of a method of the MCPClient: m is the object after it.
McpStep(m, c) ==
    /\ Len(mcp_calls) < MaxCalls
    /\ _client' = m.client
    /\ _connected' = m.connected
    /\ mcp_calls' = Append(mcp_calls, c)
    /\ UNCHANGED <<conversations, pc, conversation_id, client_open, wire,
                   full_response, current_messages, iteration, pending_tool_calls,
                   accumulated_text, finish_reason, tool_results, tool_index, call,
                   provided, before, connects, frames, chunks>>
    /\ UNCHANGED <<cache, now, session, returned, http_response, invoked>>

McpConnect(outcome) ==
    McpStep(connect(MCPClient(_client, _connected), outcome),
            McpCall("connect", outcome, "None"))

McpDisconnect ==
    McpStep(disconnect(MCPClient(_client, _connected)),
            McpCall("disconnect", "ok", "None"))

McpCallTool(outcome) ==
    McpStep(MCPClient(_client, _connected),
            McpCall("call_tool", outcome,
                    call_tool(MCPClient(_client, _connected), outcome)))

\* The object as constructed: mcp.py 21-24.
InitMcp ==
    /\ ChatInit
    /\ _client = NewMCPClient.client /\ _connected = NewMCPClient.connected
    /\ session = TRUE /\ RestIdle

NextMcp ==
    \/ \E outcome \in ConnectOutcomes : McpConnect(outcome)
    \/ McpDisconnect
    \/ \E outcome \in ToolOutcomes : McpCallTool(outcome)

SpecMcp == InitMcp /\ [][NextMcp]_vars

\* ------------------------------------------------------------ C38
IsLifecycle(c) == c.op \in {"connect", "disconnect"}

\* The most recent connect() or disconnect() among the calls q, a
\* disconnect() if there was none.
LastLifecycle(q) ==
    LET life == SelectSeq(q, IsLifecycle)
    IN IF life = <<>> THEN McpCall("disconnect", "ok", "None") ELSE life[Len(life)]

\* is_connected is true exactly when the most recent of connect() and
\* disconnect() was a connect() whose tool listing succeeded.
ConnectedByLifecycle ==
    is_connected <=>
        (LastLifecycle(mcp_calls).op = "connect" /\ LastLifecycle(mcp_calls).outcome = "ok")

\* Every call_tool made before any connect() or after a disconnect() raised
\* RuntimeError.
UnconnectedCallsFail ==
    \A i \in 1..Len(mcp_calls) :
        (/\ mcp_calls[i].op = "call_tool"
         /\ \A j \in 1..(i - 1) : mcp_calls[j].op # "connect") \/
        (/\ mcp_calls[i].op = "call_tool"
         /\ LastLifecycle(SubSeq(mcp_calls, 1, i - 1)).op = "disconnect")
            => mcp_calls[i].raised = "RuntimeError"

\* The call made in this step.
ThisCall == mcp_calls'[Len(mcp_calls')]

\* C38: is_connected of the backend's MCPClient changes only in connect()
\* and disconnect(): it is true exactly when the most recent of the two was
\* a connect() whose tool listing succeeded.  call_tool, failing or not,
\* leaves it as it is, so it can stay true while every call fails, and a
\* call_tool before any connect() or after disconnect() raises RuntimeError.
C38_Lifecycle ==
    /\ [](ConnectedByLifecycle /\ UnconnectedCallsFail)
    /\ [][/\ is_connected' # is_connected => IsLifecycle(ThisCall)
          /\ (mcp_calls' # mcp_calls /\ ThisCall.op = "call_tool") =>
                 <<_client, _connected>>' = <<_client, _connected>>]_vars

\* After a successful connect() two calls of call_tool have failed and
\* is_connected is still true.
C38_Witness ==
    /\ is_connected
    /\ Len(mcp_calls) >= 3
    /\ \A i \in (Len(mcp_calls) - 1)..Len(mcp_calls) :
           mcp_calls[i] = McpCall("call_tool", "raise", "RuntimeError")

\* ------------------------------------------------------------ C39
\* The cache holds an empty list for the key and the entry has not expired.
HoldsEmpty(key) == Live(key) /\ cache[key].data = List(<<>>)

\* One request for the key: an empty list of the backend is stored; a live
\* empty list is not served, the backend is called again; and what is
\* served without a backend call is a truthy value.
EmptyStep(key, outcome) ==
    /\ (outcome = Returns(List(<<>>)) /\ http_response'.calls # <<>>) =>
          /\ http_response'.status = 200
          /\ http_response'.body = List(<<>>)
          /\ cache'[key] = CacheEntry(List(<<>>), now)
    /\ HoldsEmpty(key) =>
          /\ Len(http_response'.calls) = 1
          /\ invoked' = Append(invoked, http_response'.calls[1])
    /\ (http_response'.status = 200 /\ http_response'.calls = <<>>) =>
          /\ Truthy(http_response'.body)
          /\ http_response'.body = cache[key].data

\* C39: in the REST bridge an empty list is stored in the cache and never
\* served from it: a cached value is returned only when it is truthy, so
\* every request for a key whose live entry is an empty list calls the
\* backend again.
C39_EmptyNotServed ==
    [][\A outcome \in BridgeOutcomes :
          /\ GetRepositories(outcome) => EmptyStep("repos:all", outcome)
          /\ GetRepoDocs(outcome) => EmptyStep("docs:r1", outcome)]_vars

\* The backend was asked for the repositories twice at the same time of
\* the clock and answered the second request with an empty list, which the
\* cache holds.
C39_Witness ==
    /\ Len(invoked) = 2
    /\ invoked[1] = invoked[2]
    /\ invoked[1].name = "get_org_repos"
    /\ now = 0
    /\ HoldsEmpty("repos:all")
    /\ http_response.body = List(<<>>)
    /\ Len(http_response.calls) = 1

====
